---------------------------- MODULE Spec2Model ----------------------------
(***************************************************************************)
(* A model of the 3D particle system: the editor (src/main.js) and the     *)
(* embeddable ParticleRenderer (src/particle-renderer.js).                 *)
(*                                                                         *)
(* The repository holds two programs that never run together; `program`    *)
(* says which one a behaviour is a run of.  The editor's state is the set  *)
(* of globals of main.js, the renderer's state the fields of one           *)
(* ParticleRenderer instance.                                              *)
(*                                                                         *)
(* JavaScript numbers are binary floating-point numbers.  They are         *)
(* modelled as a small binary floating-point format: a number is an        *)
(* integer count of quanta of 2^-FracBits, kept to MantBits significant    *)
(* bits by round-to-nearest, ties-to-even, after every arithmetic          *)
(* operation, as IEEE-754 does with 53 bits.                               *)
(*                                                                         *)
(* Particle fields that only feed the drawing calls (screen x/y, velocity, *)
(* layer, the smoothed display size/opacity/colour) are left out; the      *)
(* depth after rotation is kept because the particle array is sorted by it.*)
(***************************************************************************)
EXTENDS Integers, Sequences, FiniteSets, Bags, TLC

(***************************************************************************)
(* Bounds of the model.                                                    *)
(***************************************************************************)
FracBits == 9          \* a quantum is 2^-FracBits
MantBits == 7          \* significant bits kept by every operation
MaxParticles == 3      \* addParticles is not offered beyond this
MaxFrames == 3         \* frames are not added beyond this
MaxAnimTime == 4       \* ticks of the editor's loop per behaviour
MaxRendererTicks == 11 \* ticks of the renderer's loop per behaviour
MaxCalls == 4          \* handler calls (other than ticks) per behaviour
MaxPending == 3        \* animation-frame callbacks in flight
GridWidth == 4         \* width of the sampled pixel grids
GridHeight == 2        \* height of the sampled pixel grids
MaxStride == 3         \* largest sampling density
MaxSamplingCalls == 2  \* handler calls per behaviour of the sampler taken alone

(***************************************************************************)
(* Numbers.                                                                *)
(***************************************************************************)
One == 2 ^ FracBits
Num(k) == k * One
Half == One \div 2

\* undefined / null / a missing property
Undefined == -1000000

Abs(n) == IF n < 0 THEN -n ELSE n

RECURSIVE BitLen(_)
BitLen(n) == IF n = 0 THEN 0 ELSE 1 + BitLen(n \div 2)

\* spacing of the representable numbers around magnitude m
Quantum(m) == IF m < 2 ^ MantBits THEN 1 ELSE 2 ^ (BitLen(m) - MantBits)

\* n / D rounded to the nearest integer, ties to the even one
RoundTiesEven(n, D) ==
    LET k == n \div D
        r == n - k * D
    IN  IF 2 * r < D THEN k
        ELSE IF 2 * r > D THEN k + 1
        ELSE IF k % 2 = 0 THEN k ELSE k + 1

\* the representable number nearest to the rational n / d (d > 0)
FlRat(n, d) ==
    LET q == Quantum(Abs(n) \div d)
    IN  RoundTiesEven(n, d * q) * q

FAdd(a, b) == FlRat(a + b, 1)
FSub(a, b) == FlRat(a - b, 1)
FMul(a, b) == FlRat(a * b, One)
FDiv(a, b) == IF b < 0 THEN FlRat((-a) * One, -b) ELSE FlRat(a * One, b)

\* the square root of a natural number, rounded down
RECURSIVE ISqrt(_)
ISqrt(n) ==
    IF n < 2 THEN n
    ELSE LET r == 2 * ISqrt(n \div 4)
         IN  IF (r + 1) * (r + 1) <= n THEN r + 1 ELSE r

\* Math.sqrt(a): the representable number nearest to the square root of a >= 0
FSqrt(a) ==
    LET n == a * One
        s == ISqrt(n)
        q == Quantum(s)
        lo == (s \div q) * q
        \* the square of the middle of lo and lo + q, against n
        side == IF q = 1 THEN (2 * lo + 1) * (2 * lo + 1) - 4 * n
                ELSE (lo + q \div 2) * (lo + q \div 2) - n
    IN  IF side < 0 THEN lo + q
        ELSE IF side > 0 THEN lo
        ELSE IF (lo \div q) % 2 = 0 THEN lo ELSE lo + q

MathFloor(a) == a \div One

\* Math.round: the nearest integer, halves upwards
MathRound(v) == ((v + Half) \div One) * One

\* Math.pow(x, 3)
Pow3(x) == FlRat(x * x * x, One * One)

\* JavaScript's `a || b` on numbers
Falsy(v) == v = Undefined \/ v = 0
OrElse(a, b) == IF Falsy(a) THEN b ELSE a

Max(a, b) == IF a > b THEN a ELSE b

\* cubic ease-in-out
ease(t) ==
    IF t < Half
    THEN FMul(FMul(FMul(Num(4), t), t), t)
    ELSE FSub(One, FDiv(Pow3(FAdd(FMul(Num(-2), t), Num(2))), Num(2)))

\* start + (target - start) * t
Lerp(start, target, t) == FAdd(start, FMul(FSub(target, start), t))

(***************************************************************************)
(* Program constants.                                                      *)
(***************************************************************************)
DefaultR == 74
DefaultG == 222
DefaultB == 128

(***************************************************************************)
(* Inputs the model draws from.                                            *)
(***************************************************************************)
\* window sizes (width, height) the canvas is resized to
CanvasSizes == {<<Num(4), Num(4)>>, <<Num(8), Num(4)>>}

\* the window's size when the page loads
InitialCanvas == <<Num(4), Num(4)>>

\* values Math.random() * canvas.width / height takes in the Particle constructor
RandomPositions == {<<Half, Num(2)>>, <<Num(3), Num(1)>>}

\* the positions the successive Particle constructors of one addParticles call draw
RandomStreams == { <<<<Half, Num(2)>>, <<Num(3), Num(1)>>, <<Half, Num(2)>>>>,
                   <<<<Num(3), Num(1)>>, <<Num(3), Num(1)>>, <<Half, Num(2)>>>> }

\* rotation angles of one tick, in quarter turns about X, Y and Z
Angles == {[x |-> 0, y |-> 0, z |-> 0], [x |-> 0, y |-> 1, z |-> 0],
           [x |-> 1, y |-> 0, z |-> 2]}

\* a point of an interchange file; a missing property is Undefined
FilePoint(x, y, z, r, g, b) == [x |-> x, y |-> y, z |-> z, r |-> r, g |-> g, b |-> b]

NoName == <<"", 0>>

\* no frame: the destination before any morph
NoFrame == [name |-> NoName, points |-> <<>>]
FileFrame(name, hasPoints, points) ==
    [name |-> name, hasPoints |-> hasPoints, points |-> points]

PointA == FilePoint(Num(65), Num(2), Num(1), Num(1), Num(2), Num(3))
PointB == FilePoint(Num(3), Num(1), Undefined, Undefined, Undefined, Undefined)
PointC == FilePoint(Num(1), Num(3), Num(-2), Num(4), Num(5), Num(6))

\* {"version":"1.0","frame":{"name":"X","points":[{"x":1,"y":1}]}}
PointX == FilePoint(Num(1), Num(1), Undefined, Undefined, Undefined, Undefined)
ExampleX ==
    [version |-> TRUE, form |-> "frame",
     frames |-> <<FileFrame(<<"X", 0>>, TRUE, <<PointX>>)>>]

\* parsed interchange files offered to the editor's import
ImportPayloads ==
    { ExampleX,
      [version |-> TRUE, form |-> "frames",
       frames |-> <<FileFrame(NoName, TRUE, <<PointC, PointB>>),
                    FileFrame(<<"A", 0>>, TRUE, <<PointA>>),
                    FileFrame(<<"T", 0>>, TRUE, <<PointB, PointA, PointC>>)>>],
      [version |-> TRUE, form |-> "frames",
       frames |-> <<FileFrame(<<"E", 0>>, TRUE, <<>>),
                    FileFrame(<<"A", 0>>, TRUE, <<PointA>>)>>],
      [version |-> TRUE, form |-> "frames",
       frames |-> <<FileFrame(<<"A", 0>>, TRUE, <<PointA>>),
                    FileFrame(<<"N", 0>>, FALSE, <<>>)>>],
      [version |-> FALSE, form |-> "frames",
       frames |-> <<FileFrame(<<"A", 0>>, TRUE, <<PointA>>)>>],
      [version |-> TRUE, form |-> "none", frames |-> <<>>] }

(***************************************************************************)
(* State.                                                                  *)
(***************************************************************************)
VARIABLES
    program,            \* "editor" (main.js) or "renderer" (particle-renderer.js)
    canvasWidth, canvasHeight,
    outcome,            \* how the last handler ended: "ok", "alert" or "thrown"
    request,            \* the morph request the last step made: "morphTo", "next",
                        \* "prev", or "none"
    \* ---- editor (globals of main.js)
    rotationCenterX, rotationCenterY,
    animTime,
    particles,
    frames,
    currentFrameIndex,
    isMorphing,
    morphProgress,
    morphSpeed,
    \* locals of the last accepted morphToFrame, kept for the properties
    existingCount,
    targetPoints,
    startedAt,          \* animTime when the last accepted morph started
    destination,        \* the frame the last accepted morph was started towards
    undisturbed,        \* no load/clear/add has touched the particle array since
    resized,            \* resize() reloaded the current frame, and no load and no
                        \* morph has been made since
    calls,              \* handler calls made so far, ticks not counted
    \* ---- renderer (fields of a ParticleRenderer)
    options,            \* morphSpeed, scale, centerX, centerY
    rParticles,         \* this.particles
    rFrames,            \* this.frames
    currentFrame,
    running,
    rAnimTime,          \* this.animTime
    morphing,           \* this._morphing
    rMorphProgress,     \* this._morphProgress
    pending,            \* _animate callbacks handed to requestAnimationFrame
    \* ---- the rotation taken alone: one position put through it
    origin,             \* the position before any rotation, from the centre
    angles,             \* the angles (alpha, beta, gamma), in quarter turns
    position,           \* the position after the rotations made so far
    stage,              \* which rotations were made: "start", "turned", "back",
                        \* "backZ", "backY", "backX"
    \* ---- the sampler taken alone: one pixel buffer put through it
    pixels,             \* the buffer processSampling reads (tempCanvas)
    sampling,           \* the mode and the density of the last processSampling
    svgPoints,          \* the points the last processSampling left
    \* ---- the wireframe of the editor
    wireframeConnections, \* the pairs of indices updateWireframe built
    wired,              \* the base positions of the pairs of particles joined,
                        \* as they were at the build; empty once a morph has
                        \* moved the particles
    drawn,              \* the base positions of the pairs of particles the
                        \* last tick drew a line between
    \* ---- the file exportAllFrames downloads
    exported,           \* the file as JSON.parse reads it back
    exportedFrom        \* the frame store when the file was made

canvasVars == <<canvasWidth, canvasHeight>>
morphHistory == <<existingCount, targetPoints, startedAt, destination>>
morphLocals == <<morphHistory, undisturbed, resized>>
storeVars == <<frames, currentFrameIndex>>
morphVars == <<isMorphing, morphProgress>>
editorVars == <<rotationCenterX, rotationCenterY, animTime, particles, frames,
                currentFrameIndex, isMorphing, morphProgress, morphSpeed>>
rendererVars == <<options, rParticles, rFrames, currentFrame, running, rAnimTime,
                  morphing, rMorphProgress, pending>>
rotationProbe == <<origin, angles, position, stage>>
samplerVars == <<pixels, sampling, svgPoints>>
wireframeVars == <<wireframeConnections, wired, drawn>>
exchangeVars == <<exported, exportedFrom>>
probes == <<rotationProbe, samplerVars, wireframeVars, exchangeVars>>
vars == <<program, canvasVars, outcome, request, editorVars, morphLocals, calls, rendererVars,
          probes>>

\* a handler is called: one of the MaxCalls calls of a behaviour
Call == calls < MaxCalls /\ calls' = calls + 1

(***************************************************************************)
(* Editor: class Particle.                                                 *)
(***************************************************************************)
\* new Particle(x, y, layer, targetX, targetY, baseZ); randX, randY are the
\* values of Math.random() * canvas.width and Math.random() * canvas.height
Particle(x, y, layer, targetX, targetY, baseZ, randX, randY) ==
    LET thisX == OrElse(x, randX)
        thisY == OrElse(y, randY)
        bX == OrElse(targetX, thisX)
        bY == OrElse(targetY, thisY)
        bZ == OrElse(baseZ, 0)
    IN  [ baseX |-> bX, baseY |-> bY, baseZ |-> bZ, currentZ |-> bZ,
          sourceR |-> Num(DefaultR), sourceG |-> Num(DefaultG), sourceB |-> Num(DefaultB),
          morphTargetX |-> bX, morphTargetY |-> bY, morphTargetZ |-> bZ,
          morphTargetR |-> Num(DefaultR), morphTargetG |-> Num(DefaultG),
          morphTargetB |-> Num(DefaultB),
          morphStartX |-> bX, morphStartY |-> bY, morphStartZ |-> bZ,
          morphStartR |-> Num(DefaultR), morphStartG |-> Num(DefaultG),
          morphStartB |-> Num(DefaultB),
          markedForRemoval |-> FALSE ]

\* Particle.updateMorph(progress)
updateMorph(p, progress) ==
    LET t == ease(progress)
    IN  [ p EXCEPT
            !.baseX = Lerp(p.morphStartX, p.morphTargetX, t),
            !.baseY = Lerp(p.morphStartY, p.morphTargetY, t),
            !.baseZ = Lerp(p.morphStartZ, p.morphTargetZ, t),
            !.sourceR = MathRound(Lerp(p.morphStartR, p.morphTargetR, t)),
            !.sourceG = MathRound(Lerp(p.morphStartG, p.morphTargetG, t)),
            !.sourceB = MathRound(Lerp(p.morphStartB, p.morphTargetB, t)) ]

\* the first half of Particle.setMorphTarget: the start is the current state
setMorphStart(p) ==
    [ p EXCEPT
        !.morphStartX = p.baseX, !.morphStartY = p.baseY, !.morphStartZ = p.baseZ,
        !.morphStartR = p.sourceR, !.morphStartG = p.sourceG, !.morphStartB = p.sourceB ]

\* Particle.setMorphTarget(point), point a frame point {targetX, targetY, baseZ, r, g, b}
setMorphTarget(p, point) ==
    [ setMorphStart(p) EXCEPT
        !.morphTargetX = point.targetX,
        !.morphTargetY = point.targetY,
        !.morphTargetZ = OrElse(point.baseZ, 0),
        !.morphTargetR = IF point.r # Undefined THEN point.r ELSE Num(DefaultR),
        !.morphTargetG = IF point.g # Undefined THEN point.g ELSE Num(DefaultG),
        !.morphTargetB = IF point.b # Undefined THEN point.b ELSE Num(DefaultB) ]

\* cosine and sine of q quarter turns, as numbers (Math.cos(Math.PI / 2) is
\* 6e-17, below one quantum)
Cos(q) == CASE q % 4 = 0 -> One [] q % 4 = 1 -> 0 [] q % 4 = 2 -> -One [] OTHER -> 0
Sin(q) == CASE q % 4 = 0 -> 0 [] q % 4 = 1 -> One [] q % 4 = 2 -> 0 [] OTHER -> -One

\* a rotation that takes the axes in the order Z, Y, X
RotateZYX(pos, ang) ==
    LET rz == IF ang.z # 0
              THEN [ pos EXCEPT
                       !.x = FSub(FMul(pos.x, Cos(ang.z)), FMul(pos.y, Sin(ang.z))),
                       !.y = FAdd(FMul(pos.x, Sin(ang.z)), FMul(pos.y, Cos(ang.z))) ]
              ELSE pos
        ry == IF ang.y # 0
              THEN [ rz EXCEPT
                       !.x = FAdd(FMul(rz.x, Cos(ang.y)), FMul(rz.z, Sin(ang.y))),
                       !.z = FAdd(FMul(-rz.x, Sin(ang.y)), FMul(rz.z, Cos(ang.y))) ]
              ELSE rz
        rx == IF ang.x # 0
              THEN [ ry EXCEPT
                       !.y = FSub(FMul(ry.y, Cos(ang.x)), FMul(ry.z, Sin(ang.x))),
                       !.z = FAdd(FMul(ry.y, Sin(ang.x)), FMul(ry.z, Cos(ang.x))) ]
              ELSE ry
    IN  rx

\* the rotation about X, then Y, then Z of a position relative to the centre;
\* an axis whose angle is 0 is skipped
Rotate(pos, ang) ==
    LET rx == IF ang.x # 0
              THEN [ pos EXCEPT
                       !.y = FSub(FMul(pos.y, Cos(ang.x)), FMul(pos.z, Sin(ang.x))),
                       !.z = FAdd(FMul(pos.y, Sin(ang.x)), FMul(pos.z, Cos(ang.x))) ]
              ELSE pos
        ry == IF ang.y # 0
              THEN [ rx EXCEPT
                       !.x = FAdd(FMul(rx.x, Cos(ang.y)), FMul(rx.z, Sin(ang.y))),
                       !.z = FAdd(FMul(-rx.x, Sin(ang.y)), FMul(rx.z, Cos(ang.y))) ]
              ELSE rx
        rz == IF ang.z # 0
              THEN [ ry EXCEPT
                       !.x = FSub(FMul(ry.x, Cos(ang.z)), FMul(ry.y, Sin(ang.z))),
                       !.y = FAdd(FMul(ry.x, Sin(ang.z)), FMul(ry.y, Cos(ang.z))) ]
              ELSE ry
    IN  rz

\* Particle.update(): the depth after rotation about the rotation centre
update(p, ang) ==
    LET pos == [ x |-> FSub(p.baseX, rotationCenterX),
                 y |-> FSub(p.baseY, rotationCenterY),
                 z |-> p.baseZ ]
    IN  [ p EXCEPT !.currentZ = Rotate(pos, ang).z ]

\* Array.prototype.sort((a, b) => a.currentZ - b.currentZ): stable, ascending
InsertByDepth(sorted, p) ==
    LET k == Cardinality({i \in 1..Len(sorted) : sorted[i].currentZ <= p.currentZ})
    IN  SubSeq(sorted, 1, k) \o <<p>> \o SubSeq(sorted, k + 1, Len(sorted))

RECURSIVE SortFrom(_, _)
SortFrom(sorted, rest) ==
    IF rest = <<>> THEN sorted
    ELSE SortFrom(InsertByDepth(sorted, Head(rest)), Tail(rest))

SortByDepth(ps) == SortFrom(<<>>, ps)

(***************************************************************************)
(* Editor: frame store.                                                    *)
(***************************************************************************)
\* a stored point made of the particle's morph target instead of its base
FramePointOfTarget(p) ==
    [ targetX |-> p.morphTargetX, targetY |-> p.morphTargetY, baseZ |-> p.morphTargetZ,
      r |-> p.morphTargetR, g |-> p.morphTargetG, b |-> p.morphTargetB ]

\* the point addCurrentAsFrame stores for a particle
FramePointOf(p) ==
    [ targetX |-> p.baseX, targetY |-> p.baseY, baseZ |-> p.baseZ,
      r |-> p.sourceR, g |-> p.sourceG, b |-> p.sourceB ]

addCurrentAsFrame ==
    /\ program = "editor"
    /\ Call
    /\ UNCHANGED rendererVars
    /\ Len(frames) < MaxFrames
    /\ outcome' = "ok"
    /\ IF Len(particles) = 0
       THEN UNCHANGED storeVars
       ELSE LET frameData == [i \in 1..Len(particles) |-> FramePointOf(particles[i])]
            IN  /\ frames' = Append(frames,
                                    [ name |-> <<"Frame", Len(frames) + 1>>,
                                      points |-> frameData,
                                      pointCount |-> Len(frameData) ])
                /\ currentFrameIndex' = Len(frames)
    /\ UNCHANGED <<program, canvasVars, rotationCenterX, rotationCenterY, animTime,
                   particles, morphVars, morphSpeed, morphLocals>>

\* Array.prototype.splice(index, 1): a negative index counts from the end, an
\* index past the end removes nothing
Splice1(seq, index) ==
    LET start == IF index < 0 THEN Max(Len(seq) + index, 0) ELSE index
    IN  IF start >= Len(seq) THEN seq
        ELSE SubSeq(seq, 1, start) \o SubSeq(seq, start + 2, Len(seq))

\* a removeFrame that leaves the current index alone
removeFrameUnclamped(index) ==
    /\ program = "editor"
    /\ Call
    /\ UNCHANGED rendererVars
    /\ outcome' = "ok"
    /\ frames' = Splice1(frames, index)
    /\ UNCHANGED <<program, canvasVars, rotationCenterX, rotationCenterY, animTime,
                   particles, currentFrameIndex, morphVars, morphSpeed, morphLocals>>

removeFrame(index) ==
    /\ program = "editor"
    /\ Call
    /\ UNCHANGED rendererVars
    /\ outcome' = "ok"
    /\ frames' = Splice1(frames, index)
    /\ currentFrameIndex' =
         IF currentFrameIndex >= Len(frames')
         THEN Max(0, Len(frames') - 1)
         ELSE currentFrameIndex
    /\ UNCHANGED <<program, canvasVars, rotationCenterX, rotationCenterY, animTime,
                   particles, morphVars, morphSpeed, morphLocals>>

\* a clearAllFrames that also ends the morph in progress
clearAllFramesStoppingMorph ==
    /\ program = "editor"
    /\ Call
    /\ UNCHANGED rendererVars
    /\ outcome' = "ok"
    /\ frames' = <<>>
    /\ currentFrameIndex' = 0
    /\ isMorphing' = FALSE
    /\ UNCHANGED <<program, canvasVars, rotationCenterX, rotationCenterY, animTime,
                   particles, morphProgress, morphSpeed, morphLocals>>

clearAllFrames ==
    /\ program = "editor"
    /\ Call
    /\ UNCHANGED rendererVars
    /\ outcome' = "ok"
    /\ frames' = <<>>
    /\ currentFrameIndex' = 0
    /\ UNCHANGED <<program, canvasVars, rotationCenterX, rotationCenterY, animTime,
                   particles, morphVars, morphSpeed, morphLocals>>

\* no file was exported
NoFile == [version |-> FALSE, form |-> "none", frames |-> <<>>]

\* the file of an exportAllFrames that writes targetY as x and targetX as y
ExportedFileSwapped(fs) ==
    [ version |-> TRUE, form |-> "frames",
      frames |->
        [ k \in 1..Len(fs) |->
            FileFrame(fs[k].name, TRUE,
                      [ i \in 1..Len(fs[k].points) |->
                          LET p == fs[k].points[i]
                          IN  FilePoint(p.targetY, p.targetX, OrElse(p.baseZ, 0),
                                        IF p.r # Undefined THEN p.r ELSE Num(DefaultR),
                                        IF p.g # Undefined THEN p.g ELSE Num(DefaultG),
                                        IF p.b # Undefined THEN p.b ELSE Num(DefaultB)) ]) ] ]

\* the file exportAllFrames writes for the store fs, as JSON.parse reads it
\* back: JSON.stringify writes a finite number so that it reads back as the
\* same number and leaves out a property that is undefined
ExportedFile(fs) ==
    [ version |-> TRUE, form |-> "frames",
      frames |->
        [ k \in 1..Len(fs) |->
            FileFrame(fs[k].name, TRUE,
                      [ i \in 1..Len(fs[k].points) |->
                          LET p == fs[k].points[i]
                          IN  FilePoint(p.targetX, p.targetY, OrElse(p.baseZ, 0),
                                        IF p.r # Undefined THEN p.r ELSE Num(DefaultR),
                                        IF p.g # Undefined THEN p.g ELSE Num(DefaultG),
                                        IF p.b # Undefined THEN p.b ELSE Num(DefaultB)) ]) ] ]

\* exportAllFrames()
exportAllFrames ==
    /\ program = "editor"
    /\ Call
    /\ UNCHANGED rendererVars
    /\ IF Len(frames) = 0
       THEN /\ outcome' = "alert"
            /\ UNCHANGED <<exported, exportedFrom>>
       ELSE /\ outcome' = "ok"
            /\ exported' = ExportedFile(frames)
            /\ exportedFrom' = frames
    /\ UNCHANGED <<program, canvasVars, editorVars, morphLocals>>

\* the frame importSingleFrame pushes onto a store of n frames
ImportedFrame(frameData, n) ==
    LET points == [ i \in 1..Len(frameData.points) |->
                      LET p == frameData.points[i]
                      IN  [ targetX |-> p.x, targetY |-> p.y, baseZ |-> OrElse(p.z, 0),
                            r |-> p.r, g |-> p.g, b |-> p.b ] ]
    IN  [ name |-> IF frameData.name = NoName THEN <<"Imported Frame", n + 1>>
                   ELSE frameData.name,
          points |-> points,
          pointCount |-> Len(points) ]

\* data.frames.forEach(frame => importSingleFrame(frame)) on the store fs: a
\* frame without a point list throws, which ends the loop
RECURSIVE importEach(_, _)
importEach(fs, list) ==
    IF list = <<>> THEN [frames |-> fs, threw |-> FALSE]
    ELSE IF ~Head(list).hasPoints THEN [frames |-> fs, threw |-> TRUE]
    ELSE importEach(Append(fs, ImportedFrame(Head(list), Len(fs))), Tail(list))

\* an import that replaces the store by the imported frames
handleFrameImportReplacing(data) ==
    /\ program = "editor"
    /\ Call
    /\ UNCHANGED rendererVars
    /\ Len(frames) + Len(data.frames) <= MaxFrames
    /\ IF ~data.version \/ data.form = "none"
       THEN /\ outcome' = "alert"
            /\ UNCHANGED frames
       ELSE LET list == IF data.form = "frame" THEN <<data.frames[1]>> ELSE data.frames
                got == importEach(<<>>, list)
            IN  /\ frames' = got.frames
                /\ outcome' = IF got.threw THEN "alert" ELSE "ok"
    /\ UNCHANGED <<program, canvasVars, rotationCenterX, rotationCenterY, animTime,
                   particles, currentFrameIndex, morphVars, morphSpeed, morphLocals>>

\* an import that makes the last imported frame the current one
handleFrameImportSelecting(data) ==
    /\ program = "editor"
    /\ Call
    /\ UNCHANGED rendererVars
    /\ Len(frames) + Len(data.frames) <= MaxFrames
    /\ IF ~data.version \/ data.form = "none"
       THEN /\ outcome' = "alert"
            /\ UNCHANGED <<frames, currentFrameIndex>>
       ELSE LET list == IF data.form = "frame" THEN <<data.frames[1]>> ELSE data.frames
                got == importEach(frames, list)
            IN  /\ frames' = got.frames
                /\ currentFrameIndex' = Max(0, Len(got.frames) - 1)
                /\ outcome' = IF got.threw THEN "alert" ELSE "ok"
    /\ UNCHANGED <<program, canvasVars, rotationCenterX, rotationCenterY, animTime,
                   particles, morphVars, morphSpeed, morphLocals>>

\* reader.onload of handleFrameImport, data the parsed file
handleFrameImport(data) ==
    /\ program = "editor"
    /\ Call
    /\ UNCHANGED rendererVars
    /\ Len(frames) + Len(data.frames) <= MaxFrames
    /\ IF ~data.version \/ data.form = "none"
       THEN /\ outcome' = "alert"
            /\ UNCHANGED frames
       ELSE LET list == IF data.form = "frame" THEN <<data.frames[1]>> ELSE data.frames
                got == importEach(frames, list)
            IN  /\ frames' = got.frames
                /\ outcome' = IF got.threw THEN "alert" ELSE "ok"
    /\ UNCHANGED <<program, canvasVars, rotationCenterX, rotationCenterY, animTime,
                   particles, currentFrameIndex, morphVars, morphSpeed, morphLocals>>

(***************************************************************************)
(* Editor: particle management.                                            *)
(***************************************************************************)
\* addParticles(count) while no SVG points are loaded: count free particles
\* at random positions
addParticles(count) ==
    /\ program = "editor"
    /\ Call
    /\ UNCHANGED rendererVars
    /\ Len(svgPoints) = 0
    /\ Len(particles) + count <= MaxParticles
    /\ outcome' = "ok"
    /\ \E pos \in RandomStreams :
         particles' = particles \o
            [ i \in 1..count |->
                Particle(Undefined, Undefined, 1, Undefined, Undefined, Undefined,
                         pos[i][1], pos[i][2]) ]
    /\ undisturbed' = FALSE
    /\ resized' = FALSE
    /\ UNCHANGED <<program, canvasVars, rotationCenterX, rotationCenterY, animTime,
                   storeVars, morphVars, morphSpeed, morphHistory>>

clearParticles ==
    /\ program = "editor"
    /\ Call
    /\ UNCHANGED rendererVars
    /\ outcome' = "ok"
    /\ particles' = <<>>
    /\ undisturbed' = FALSE
    /\ resized' = FALSE
    /\ UNCHANGED <<program, canvasVars, rotationCenterX, rotationCenterY, animTime,
                   storeVars, morphVars, morphSpeed, morphHistory>>

\* the window's resize listeners: resize(), then updateRotationCenter()
resize(size) ==
    /\ program = "editor"
    /\ Call
    /\ UNCHANGED rendererVars
    /\ outcome' = "ok"
    /\ canvasWidth' = size[1]
    /\ canvasHeight' = size[2]
    /\ rotationCenterX' = FDiv(size[1], Num(2))
    /\ rotationCenterY' = FDiv(size[2], Num(2))
    /\ UNCHANGED <<program, animTime, particles, storeVars, morphVars, morphSpeed,
                   morphLocals>>

(***************************************************************************)
(* Editor: morph controller.                                               *)
(***************************************************************************)
\* the particle the `while` loop of morphToFrame pushes for sourceParticle
Spawned(sourceParticle, rand) ==
    [ Particle(sourceParticle.baseX, sourceParticle.baseY, 1, sourceParticle.baseX,
               sourceParticle.baseY, sourceParticle.baseZ, rand[1], rand[2])
      EXCEPT !.sourceR = sourceParticle.sourceR,
             !.sourceG = sourceParticle.sourceG,
             !.sourceB = sourceParticle.sourceB ]

\* the particles one push of the loop can add: any existing particle as source
\* (Math.random() * existingCount), any random position if the source is at 0
SpawnChoices(existing) ==
    { Spawned(existing[i], rand) : i \in 1..Len(existing), rand \in RandomPositions }

\* the loop that sets the morph targets without marking the excess particles
withMorphTargetsUnmarked(ps, points, merge) ==
    [ i \in 1..Len(ps) |->
        IF i <= Len(points)
        THEN [ setMorphTarget(ps[i], points[i]) EXCEPT !.markedForRemoval = FALSE ]
        ELSE [ setMorphTarget(ps[i], points[merge[i]]) EXCEPT !.markedForRemoval = FALSE ] ]

\* the loop that sets the morph targets, merge[i] the random target of an
\* excess particle
withMorphTargets(ps, points, merge) ==
    [ i \in 1..Len(ps) |->
        IF i <= Len(points)
        THEN [ setMorphTarget(ps[i], points[i]) EXCEPT !.markedForRemoval = FALSE ]
        ELSE [ setMorphTarget(ps[i], points[merge[i]]) EXCEPT !.markedForRemoval = TRUE ] ]

morphToFrame(targetIndex) ==
    /\ program = "editor"
    /\ Call
    /\ UNCHANGED rendererVars
    /\ IF \/ isMorphing
          \/ targetIndex = currentFrameIndex
          \/ targetIndex < 0
          \/ targetIndex >= Len(frames)
       THEN /\ outcome' = "ok"
            /\ UNCHANGED <<particles, storeVars, morphVars, morphLocals>>
       ELSE LET points == frames[targetIndex + 1].points
                count == Len(particles)
                targetCount == Len(points)
                cleared == [ i \in 1..count |->
                               [ particles[i] EXCEPT !.markedForRemoval = FALSE ] ]
            IN  IF count < targetCount /\ count = 0
                THEN \* particles[0] is undefined: sourceParticle.baseX throws
                     /\ outcome' = "thrown"
                     /\ UNCHANGED <<particles, storeVars, morphVars, morphLocals>>
                ELSE IF count > 0 /\ targetCount = 0
                THEN \* mergeTarget is undefined: setMorphTarget throws at
                     \* point.targetX, after it has stored the start of particle 0
                     /\ outcome' = "thrown"
                     /\ particles' = [ cleared EXCEPT ![1] = setMorphStart(cleared[1]) ]
                     /\ UNCHANGED <<storeVars, morphVars, morphLocals>>
                ELSE \E added \in [ 1..Max(targetCount - count, 0) -> SpawnChoices(cleared) ],
                        merge \in [ (targetCount + 1)..count -> 1..Max(targetCount, 1) ] :
                        /\ particles' = withMorphTargets(cleared \o added, points, merge)
                        /\ isMorphing' = TRUE
                        /\ morphProgress' = 0
                        /\ currentFrameIndex' = targetIndex
                        /\ outcome' = "ok"
                        /\ existingCount' = count
                        /\ targetPoints' = points
                        /\ startedAt' = animTime
                        /\ destination' = frames[targetIndex + 1]
                        /\ undisturbed' = TRUE
                        /\ resized' = FALSE
                        /\ UNCHANGED frames
    /\ UNCHANGED <<program, canvasVars, rotationCenterX, rotationCenterY, animTime,
                   morphSpeed>>

morphToNextFrame ==
    IF Len(frames) < 2
    THEN /\ program = "editor"
         /\ Call
         /\ outcome' = "ok"
         /\ UNCHANGED <<program, canvasVars, editorVars, morphLocals, rendererVars>>
    ELSE morphToFrame((currentFrameIndex + 1) % Len(frames))

morphToPrevFrame ==
    IF Len(frames) < 2
    THEN /\ program = "editor"
         /\ Call
         /\ outcome' = "ok"
         /\ UNCHANGED <<program, canvasVars, editorVars, morphLocals, rendererVars>>
    ELSE morphToFrame((currentFrameIndex - 1 + Len(frames)) % Len(frames))

(***************************************************************************)
(* Editor: the animation loop.                                             *)
(***************************************************************************)
\* a morph that never completes below progress 2
morphCompleteLate(progress) == progress >= Num(2)

\* if (morphProgress >= 1), if (this._morphProgress >= 1)
morphComplete(progress) == progress >= One

\* a morph step that keeps the particles marked for removal
MorphStepKeepingMarked(ps, isOn, progress) ==
    IF isOn
    THEN [ i \in 1..Len(ps) |->
             updateMorph(ps[i], IF morphComplete(progress) THEN One ELSE progress) ]
    ELSE ps

\* the particles after one tick's morph step, given the advanced progress
MorphStep(ps, isOn, progress) ==
    LET kept == IF isOn /\ morphComplete(progress)
                THEN SelectSeq(ps, LAMBDA p : ~p.markedForRemoval)
                ELSE ps
    IN  IF isOn
        THEN [ i \in 1..Len(kept) |->
                 updateMorph(kept[i], IF morphComplete(progress) THEN One ELSE progress) ]
        ELSE kept

animate(ang) ==
    /\ program = "editor"
    /\ UNCHANGED <<calls, rendererVars>>
    /\ animTime < MaxAnimTime
    /\ animTime' = animTime + 1
    /\ outcome' = "ok"
    /\ LET progress == IF isMorphing THEN FAdd(morphProgress, morphSpeed)
                       ELSE morphProgress
           morphed == MorphStep(particles, isMorphing, progress)
       IN  /\ morphProgress' = IF isMorphing /\ morphComplete(progress) THEN One ELSE progress
           /\ isMorphing' = (isMorphing /\ ~morphComplete(progress))
           /\ particles' = SortByDepth([ i \in 1..Len(morphed) |-> update(morphed[i], ang) ])
    /\ UNCHANGED <<program, canvasVars, rotationCenterX, rotationCenterY, storeVars,
                   morphSpeed, morphLocals>>

(***************************************************************************)
(* Editor: wireframe.                                                      *)
(***************************************************************************)
\* the pairs [i, j], i < j, in the order of the nested loops over n particles
IndexPairs(n) ==
    SelectSeq([ k \in 1..(n * n) |-> <<(k - 1) \div n, (k - 1) % n>> ],
              LAMBDA c : c[1] < c[2])

\* dist < maxDist for two particles
Near(p, q) ==
    LET dx == FSub(p.baseX, q.baseX)
        dy == FSub(p.baseY, q.baseY)
    IN  FSqrt(FAdd(FMul(dx, dx), FMul(dy, dy))) < Num(30)

\* the connections updateWireframe builds: the pairs of indices of particles
\* less than 30 apart
ConnectionsOf(ps) ==
    SelectSeq(IndexPairs(Len(ps)), LAMBDA c : Near(ps[c[1] + 1], ps[c[2] + 1]))

\* updateWireframe(), checked the state of the wireframe checkbox
updateWireframe(checked) ==
    /\ program = "editor"
    /\ Call
    /\ UNCHANGED rendererVars
    /\ outcome' = "ok"
    /\ wireframeConnections' = IF ~checked THEN <<>> ELSE ConnectionsOf(particles)
    /\ UNCHANGED <<program, canvasVars, editorVars, morphLocals>>

\* the lines animate() draws over the sorted particles ps: one per connection
\* whose two indices name a particle (the checkbox as it was at the build)
LinesDrawn(connections, ps) ==
    SelectSeq(connections, LAMBDA c : c[1] < Len(ps) /\ c[2] < Len(ps))

(***************************************************************************)
(* ParticleRenderer.                                                       *)
(***************************************************************************)
\* a _normalizeFrame that stores the fields as the file gives them
normalizeFrameAsGiven(frame) ==
    [ name |-> IF frame.name = NoName THEN <<"Frame", 0>> ELSE frame.name,
      points |-> [ i \in 1..Len(frame.points) |->
                     LET p == frame.points[i]
                     IN  [ x |-> p.x, y |-> p.y, z |-> p.z,
                           r |-> p.r, g |-> p.g, b |-> p.b ] ] ]

\* _normalizeFrame(frame); the file's points carry x, y, not targetX, targetY
normalizeFrame(frame) ==
    [ name |-> IF frame.name = NoName THEN <<"Frame", 0>> ELSE frame.name,
      points |-> [ i \in 1..Len(frame.points) |->
                     LET p == frame.points[i]
                     IN  [ x |-> p.x, y |-> p.y,
                           z |-> IF p.z # Undefined THEN p.z ELSE 0,
                           r |-> IF p.r # Undefined THEN p.r ELSE Num(DefaultR),
                           g |-> IF p.g # Undefined THEN p.g ELSE Num(DefaultG),
                           b |-> IF p.b # Undefined THEN p.b ELSE Num(DefaultB) ] ] ]

\* pts.reduce((s, p) => s + p.x, 0)
RECURSIVE SumX(_)
SumX(pts) == IF pts = <<>> THEN 0 ELSE FAdd(SumX(SubSeq(pts, 1, Len(pts) - 1)), pts[Len(pts)].x)

RECURSIVE SumY(_)
SumY(pts) == IF pts = <<>> THEN 0 ELSE FAdd(SumY(SubSeq(pts, 1, Len(pts) - 1)), pts[Len(pts)].y)

\* options.centerX ?? canvas.width / 2, options.centerY ?? canvas.height / 2
CenterX(opts, width) == IF opts.centerX # Undefined THEN opts.centerX ELSE FDiv(width, Num(2))
CenterY(opts, height) == IF opts.centerY # Undefined THEN opts.centerY ELSE FDiv(height, Num(2))

\* a frame's points as stored, neither centred nor scaled
CentredAsStored(pts, cx, cy, scale) ==
    [ i \in 1..Len(pts) |->
        [ x |-> pts[i].x, y |-> pts[i].y, z |-> pts[i].z,
          r |-> pts[i].r, g |-> pts[i].g, b |-> pts[i].b ] ]

\* a frame's points centred on (cx, cy) and scaled, as _loadFrame and _morphTo
\* compute them
Centred(pts, cx, cy, scale) ==
    LET fcx == FDiv(SumX(pts), Num(Len(pts)))
        fcy == FDiv(SumY(pts), Num(Len(pts)))
    IN  [ i \in 1..Len(pts) |->
            [ x |-> FAdd(cx, FMul(FSub(pts[i].x, fcx), scale)),
              y |-> FAdd(cy, FMul(FSub(pts[i].y, fcy), scale)),
              z |-> FMul(pts[i].z, scale),
              r |-> pts[i].r, g |-> pts[i].g, b |-> pts[i].b ] ]

\* the particle _loadFrame makes of a centred point
LoadedParticle(t) ==
    [ baseX |-> t.x, baseY |-> t.y, baseZ |-> t.z, z |-> 0,
      r |-> t.r, g |-> t.g, b |-> t.b,
      morphStartX |-> 0, morphStartY |-> 0, morphStartZ |-> 0,
      morphTargetX |-> 0, morphTargetY |-> 0, morphTargetZ |-> 0,
      morphStartR |-> t.r, morphStartG |-> t.g, morphStartB |-> t.b,
      morphTargetR |-> t.r, morphTargetG |-> t.g, morphTargetB |-> t.b,
      remove |-> FALSE ]

\* this.particles after _loadFrame(index) on the frames fs (index names a frame)
loadFrame(fs, index, opts, width, height) ==
    LET pts == fs[index + 1].points
        centred == Centred(pts, CenterX(opts, width), CenterY(opts, height), opts.scale)
    IN  [ i \in 1..Len(pts) |-> LoadedParticle(centred[i]) ]

\* the frames loadFrames(data) stores for an in-memory object
LoadedFrames(data, old) ==
    CASE data.form = "frame" -> <<normalizeFrame(data.frames[1])>>
      [] data.form = "frames" -> [ i \in 1..Len(data.frames) |-> normalizeFrame(data.frames[i]) ]
      [] OTHER -> old

loadFrames(data) ==
    /\ program = "renderer"
    /\ Call
    /\ UNCHANGED editorVars
    /\ IF data.form # "none" /\ \E i \in 1..Len(data.frames) : ~data.frames[i].hasPoints
       THEN \* frame.points.map throws in _normalizeFrame, before this.frames is set
            /\ outcome' = "thrown"
            /\ UNCHANGED <<rFrames, rParticles, currentFrame, undisturbed, resized>>
       ELSE /\ outcome' = "ok"
            /\ rFrames' = LoadedFrames(data, rFrames)
            /\ IF Len(rFrames') > 0
               THEN /\ rParticles' = loadFrame(rFrames', 0, options, canvasWidth, canvasHeight)
                    /\ currentFrame' = 0
                    /\ undisturbed' = FALSE
                    /\ resized' = FALSE
               ELSE UNCHANGED <<rParticles, currentFrame, undisturbed, resized>>
    /\ UNCHANGED <<program, canvasVars, options, running, rAnimTime, morphing,
                   rMorphProgress, pending, morphHistory>>

\* the host resizes the canvas and calls resize()
rendererResize(size) ==
    /\ program = "renderer"
    /\ Call
    /\ UNCHANGED editorVars
    /\ outcome' = "ok"
    /\ canvasWidth' = size[1]
    /\ canvasHeight' = size[2]
    /\ IF Len(rFrames) > 0
       THEN /\ rParticles' = loadFrame(rFrames, currentFrame, options, size[1], size[2])
            /\ undisturbed' = FALSE
            /\ resized' = TRUE
       ELSE UNCHANGED <<rParticles, undisturbed, resized>>
    /\ UNCHANGED <<program, options, rFrames, currentFrame, running, rAnimTime, morphing,
                   rMorphProgress, pending, morphHistory>>

start ==
    /\ program = "renderer"
    /\ Call
    /\ UNCHANGED editorVars
    /\ outcome' = "ok"
    /\ IF running
       THEN UNCHANGED <<running, pending>>
       ELSE /\ pending < MaxPending
            /\ running' = TRUE
            /\ pending' = pending + 1
    /\ UNCHANGED <<program, canvasVars, options, rParticles, rFrames, currentFrame,
                   rAnimTime, morphing, rMorphProgress, morphLocals>>

stop ==
    /\ program = "renderer"
    /\ Call
    /\ UNCHANGED editorVars
    /\ outcome' = "ok"
    /\ running' = FALSE
    /\ UNCHANGED <<program, canvasVars, options, rParticles, rFrames, currentFrame,
                   rAnimTime, morphing, rMorphProgress, pending, morphLocals>>

\* the particle the `while` loop of _morphTo pushes for src
rSpawned(src) ==
    [ baseX |-> src.baseX, baseY |-> src.baseY, baseZ |-> src.baseZ, z |-> 0,
      r |-> src.r, g |-> src.g, b |-> src.b,
      morphStartX |-> 0, morphStartY |-> 0, morphStartZ |-> 0,
      morphTargetX |-> 0, morphTargetY |-> 0, morphTargetZ |-> 0,
      morphStartR |-> src.r, morphStartG |-> src.g, morphStartB |-> src.b,
      morphTargetR |-> src.r, morphTargetG |-> src.g, morphTargetB |-> src.b,
      remove |-> FALSE ]

\* the loop that pushes n particles, src[k] the index Math.random() picks among
\* the particles there are at the k-th push
RECURSIVE rAddParticles(_, _, _)
rAddParticles(ps, src, k) ==
    IF k > Len(src) THEN ps
    ELSE rAddParticles(Append(ps, rSpawned(ps[((src[k] - 1) % Len(ps)) + 1])), src, k + 1)

rSetMorphStart(p) ==
    [ p EXCEPT
        !.morphStartX = p.baseX, !.morphStartY = p.baseY, !.morphStartZ = p.baseZ,
        !.morphStartR = p.r, !.morphStartG = p.g, !.morphStartB = p.b ]

rSetMorphTarget(p, t, flag) ==
    [ rSetMorphStart(p) EXCEPT
        !.morphTargetX = t.x, !.morphTargetY = t.y, !.morphTargetZ = t.z,
        !.morphTargetR = t.r, !.morphTargetG = t.g, !.morphTargetB = t.b,
        !.remove = flag ]

\* the loop of _morphTo that sets the morph targets
rWithMorphTargets(ps, points, merge) ==
    [ i \in 1..Len(ps) |->
        IF i <= Len(points)
        THEN rSetMorphTarget(ps[i], points[i], FALSE)
        ELSE rSetMorphTarget(ps[i], points[merge[i]], TRUE) ]

\* _morphTo(targetIndex), targetIndex the index of a frame
morphTo(targetIndex) ==
    LET pts == rFrames[targetIndex + 1].points
        count == Len(rParticles)
        targetCount == Len(pts)
    IN  IF count < targetCount /\ count = 0
        THEN \* src is undefined: src.baseX throws
             /\ outcome' = "thrown"
             /\ UNCHANGED <<rParticles, currentFrame, morphing, rMorphProgress, morphLocals>>
        ELSE IF count > 0 /\ targetCount = 0
        THEN \* t is undefined: t.x throws after the start of particle 0 is stored
             /\ outcome' = "thrown"
             /\ rParticles' = [ rParticles EXCEPT ![1] = rSetMorphStart(rParticles[1]) ]
             /\ UNCHANGED <<currentFrame, morphing, rMorphProgress, morphLocals>>
        ELSE \E src \in [ 1..Max(targetCount - count, 0) -> 1..MaxParticles ],
                merge \in [ (targetCount + 1)..count -> 1..Max(targetCount, 1) ] :
                /\ \A k \in DOMAIN src : src[k] <= count + k - 1
                /\ rParticles' =
                     rWithMorphTargets(
                        rAddParticles(rParticles, src, 1),
                        Centred(pts, CenterX(options, canvasWidth),
                                CenterY(options, canvasHeight), options.scale),
                        merge)
                /\ morphing' = TRUE
                /\ rMorphProgress' = 0
                /\ currentFrame' = targetIndex
                /\ outcome' = "ok"
                /\ existingCount' = count
                /\ startedAt' = rAnimTime
                /\ destination' = rFrames[targetIndex + 1]
                /\ targetPoints' = Centred(pts, CenterX(options, canvasWidth),
                                           CenterY(options, canvasHeight), options.scale)
                /\ undisturbed' = TRUE
                /\ resized' = FALSE

\* a next() that does not look at _morphing
nextWhileMorphing ==
    /\ program = "renderer"
    /\ Call
    /\ UNCHANGED editorVars
    /\ IF Len(rFrames) < 2
       THEN /\ outcome' = "ok"
            /\ UNCHANGED <<rParticles, currentFrame, morphing, rMorphProgress, morphLocals>>
       ELSE morphTo((currentFrame + 1) % Len(rFrames))
    /\ UNCHANGED <<program, canvasVars, options, rFrames, running, rAnimTime, pending>>

next ==
    /\ program = "renderer"
    /\ Call
    /\ UNCHANGED editorVars
    /\ IF Len(rFrames) < 2 \/ morphing
       THEN /\ outcome' = "ok"
            /\ UNCHANGED <<rParticles, currentFrame, morphing, rMorphProgress, morphLocals>>
       ELSE morphTo((currentFrame + 1) % Len(rFrames))
    /\ UNCHANGED <<program, canvasVars, options, rFrames, running, rAnimTime, pending>>

\* a prev() that steps back by two
prevByTwo ==
    /\ program = "renderer"
    /\ Call
    /\ UNCHANGED editorVars
    /\ IF Len(rFrames) < 2 \/ morphing
       THEN /\ outcome' = "ok"
            /\ UNCHANGED <<rParticles, currentFrame, morphing, rMorphProgress, morphLocals>>
       ELSE morphTo((currentFrame - 2 + Len(rFrames)) % Len(rFrames))
    /\ UNCHANGED <<program, canvasVars, options, rFrames, running, rAnimTime, pending>>

prev ==
    /\ program = "renderer"
    /\ Call
    /\ UNCHANGED editorVars
    /\ IF Len(rFrames) < 2 \/ morphing
       THEN /\ outcome' = "ok"
            /\ UNCHANGED <<rParticles, currentFrame, morphing, rMorphProgress, morphLocals>>
       ELSE morphTo((currentFrame - 1 + Len(rFrames)) % Len(rFrames))
    /\ UNCHANGED <<program, canvasVars, options, rFrames, running, rAnimTime, pending>>

\* a goTo() that does not compare the index with the current frame's
goToCurrentToo(index) ==
    /\ program = "renderer"
    /\ Call
    /\ UNCHANGED editorVars
    /\ IF index < 0 \/ index >= Len(rFrames) \/ morphing
       THEN /\ outcome' = "ok"
            /\ UNCHANGED <<rParticles, currentFrame, morphing, rMorphProgress, morphLocals>>
       ELSE morphTo(index)
    /\ UNCHANGED <<program, canvasVars, options, rFrames, running, rAnimTime, pending>>

goTo(index) ==
    /\ program = "renderer"
    /\ Call
    /\ UNCHANGED editorVars
    /\ IF index < 0 \/ index >= Len(rFrames) \/ morphing \/ index = currentFrame
       THEN /\ outcome' = "ok"
            /\ UNCHANGED <<rParticles, currentFrame, morphing, rMorphProgress, morphLocals>>
       ELSE morphTo(index)
    /\ UNCHANGED <<program, canvasVars, options, rFrames, running, rAnimTime, pending>>

\* the morph block of _animate on one particle
rUpdateMorph(p, progress) ==
    LET t == ease(progress)
    IN  [ p EXCEPT
            !.baseX = Lerp(p.morphStartX, p.morphTargetX, t),
            !.baseY = Lerp(p.morphStartY, p.morphTargetY, t),
            !.baseZ = Lerp(p.morphStartZ, p.morphTargetZ, t),
            !.r = MathRound(Lerp(p.morphStartR, p.morphTargetR, t)),
            !.g = MathRound(Lerp(p.morphStartG, p.morphTargetG, t)),
            !.b = MathRound(Lerp(p.morphStartB, p.morphTargetB, t)) ]

\* the morph block of _animate without the filter on `remove`
rMorphStepKeepingFlagged(ps, isOn, progress) ==
    IF isOn
    THEN [ i \in 1..Len(ps) |->
             rUpdateMorph(ps[i], IF morphComplete(progress) THEN One ELSE progress) ]
    ELSE ps

rMorphStep(ps, isOn, progress) ==
    LET kept == IF isOn /\ morphComplete(progress)
                THEN SelectSeq(ps, LAMBDA p : ~p.remove)
                ELSE ps
    IN  IF isOn
        THEN [ i \in 1..Len(kept) |->
                 rUpdateMorph(kept[i], IF morphComplete(progress) THEN One ELSE progress) ]
        ELSE kept

\* the transform block of _animate on one particle: its depth after rotation
rTransform(p, ang, cx, cy) ==
    [ p EXCEPT !.z = Rotate([ x |-> FSub(p.baseX, cx), y |-> FSub(p.baseY, cy),
                               z |-> p.baseZ ], ang).z ]

rInsertByDepth(sorted, p) ==
    LET k == Cardinality({i \in 1..Len(sorted) : sorted[i].z <= p.z})
    IN  SubSeq(sorted, 1, k) \o <<p>> \o SubSeq(sorted, k + 1, Len(sorted))

RECURSIVE rSortFrom(_, _)
rSortFrom(sorted, rest) ==
    IF rest = <<>> THEN sorted
    ELSE rSortFrom(rInsertByDepth(sorted, Head(rest)), Tail(rest))

\* one _animate callback runs
rAnimate(ang) ==
    /\ program = "renderer"
    /\ UNCHANGED <<calls, editorVars>>
    /\ pending > 0
    /\ outcome' = "ok"
    /\ IF ~running
       THEN /\ pending' = pending - 1
            /\ UNCHANGED <<rAnimTime, rParticles, morphing, rMorphProgress>>
       ELSE /\ rAnimTime < MaxRendererTicks
            /\ rAnimTime' = rAnimTime + 1
            /\ pending' = pending
            /\ LET progress == IF morphing THEN FAdd(rMorphProgress, options.morphSpeed)
                               ELSE rMorphProgress
                   morphed == rMorphStep(rParticles, morphing, progress)
                   cx == CenterX(options, canvasWidth)
                   cy == CenterY(options, canvasHeight)
               IN  /\ rMorphProgress' = IF morphing /\ morphComplete(progress) THEN One
                                        ELSE progress
                   /\ morphing' = (morphing /\ ~morphComplete(progress))
                   /\ rParticles' = rSortFrom(<<>>, [ i \in 1..Len(morphed) |->
                                                       rTransform(morphed[i], ang, cx, cy) ])
    /\ UNCHANGED <<program, canvasVars, options, rFrames, currentFrame, running,
                   morphLocals>>

(***************************************************************************)
(* Editor: sampling an image (processSampling and what it calls).          *)
(***************************************************************************)
\* an ImageData pixel: four bytes
Pixel(r, g, b, alpha) == [ r |-> r, g |-> g, b |-> b, alpha |-> alpha ]
Lit == Pixel(255, 255, 255, 255)
Dark == Pixel(0, 0, 0, 255)

\* null in the place of a pixel
NoPixel == Pixel(Undefined, Undefined, Undefined, Undefined)

\* a canvas of the given size with its ImageData, one pixel per position in
\* row-major order
Buffer(width, height, data) == [ width |-> width, height |-> height, data |-> data ]
NoBuffer == Buffer(0, 0, <<>>)

\* the mode and the density before any sampling
NotSampled == [ mode |-> "none", step |-> 0 ]

\* getPixelColor(x, y)
getPixelColor(buf, x, y) ==
    IF x < 0 \/ x >= buf.width \/ y < 0 \/ y >= buf.height THEN NoPixel
    ELSE buf.data[y * buf.width + x + 1]

\* isWhite(x, y)
isWhite(buf, x, y) ==
    LET color == getPixelColor(buf, x, y)
    IN  IF color = NoPixel THEN FALSE
        ELSE (color.r > 128 \/ color.g > 128 \/ color.b > 128) /\ color.alpha > 128

\* the values a loop  for (v = 0; v < limit; v += step)  takes
LoopValues(limit, step) == [ k \in 1..((limit + step - 1) \div step) |-> (k - 1) * step ]

\* the positions the nested loops  for y ... for x ...  visit, in their order
LoopPositions(buf, step) ==
    LET xs == LoopValues(buf.width, step)
        ys == LoopValues(buf.height, step)
    IN  [ k \in 1..(Len(xs) * Len(ys)) |->
            [ x |-> xs[((k - 1) % Len(xs)) + 1], y |-> ys[((k - 1) \div Len(xs)) + 1] ] ]

\* the point pushed for the pixel at p
SampledPoint(buf, p, sampleScale) ==
    LET color == getPixelColor(buf, p.x, p.y)
    IN  [ x |-> FDiv(Num(p.x), sampleScale),
          y |-> FDiv(Num(p.y), sampleScale),
          r |-> IF color # NoPixel THEN Num(color.r) ELSE Num(DefaultR),
          g |-> IF color # NoPixel THEN Num(color.g) ELSE Num(DefaultG),
          b |-> IF color # NoPixel THEN Num(color.b) ELSE Num(DefaultB) ]

\* fill mode with every second stride started one pixel in
fillPointsStaggered(buf, step, sampleScale) ==
    LET at == LoopPositions(buf, step)
        moved == [ k \in 1..Len(at) |-> [ x |-> at[k].x + (step % 2), y |-> at[k].y ] ]
        seen == SelectSeq(moved, LAMBDA p : isWhite(buf, p.x, p.y))
    IN  [ i \in 1..Len(seen) |-> SampledPoint(buf, seen[i], sampleScale) ]

\* fill mode: the visible pixels of the grid of stride step
fillPoints(buf, step, sampleScale) ==
    LET seen == SelectSeq(LoopPositions(buf, step), LAMBDA p : isWhite(buf, p.x, p.y))
    IN  [ i \in 1..Len(seen) |-> SampledPoint(buf, seen[i], sampleScale) ]

\* border mode, step 2: a visible pixel with a neighbour (right, down, left, up)
\* that is not visible
isBorder(buf, p) ==
    /\ isWhite(buf, p.x, p.y)
    /\ \/ ~isWhite(buf, p.x + 1, p.y)
       \/ ~isWhite(buf, p.x, p.y + 1)
       \/ ~isWhite(buf, p.x - 1, p.y)
       \/ ~isWhite(buf, p.x, p.y - 1)

borderPixelsOf(buf) == SelectSeq(LoopPositions(buf, 1), LAMBDA p : isBorder(buf, p))

\* step 3: the centre of mass of the border pixels
RECURSIVE SumOf(_, _)
SumOf(seq, axis) ==
    IF seq = <<>> THEN 0
    ELSE FAdd(SumOf(SubSeq(seq, 1, Len(seq) - 1), axis), Num(seq[Len(seq)][axis]))

CentreOfMass(border) ==
    [ x |-> FDiv(SumOf(border, "x"), Num(Len(border))),
      y |-> FDiv(SumOf(border, "y"), Num(Len(border))) ]

\* step 4: Math.atan2(a.y - cy, a.x - cx) - Math.atan2(b.y - cy, b.x - cx) < 0.
\* The angles run from just above -pi to pi: below the centre first, then the
\* direction of +x (and the centre itself), then above the centre, then the
\* direction of -x; inside one half the cross product orders them.
HalfOf(dx, dy) ==
    IF dy < 0 THEN 1
    ELSE IF dy = 0 /\ dx >= 0 THEN 2
    ELSE IF dy > 0 THEN 3
    ELSE 4

AngleBefore(a, b, c) ==
    LET ax == FSub(Num(a.x), c.x)
        ay == FSub(Num(a.y), c.y)
        bx == FSub(Num(b.x), c.x)
        by == FSub(Num(b.y), c.y)
    IN  \/ HalfOf(ax, ay) < HalfOf(bx, by)
        \/ /\ HalfOf(ax, ay) = HalfOf(bx, by)
           /\ ax * by - ay * bx > 0

\* borderPixels.sort(...): a stable sort by the angle
RECURSIVE InsertByAngle(_, _, _)
InsertByAngle(sorted, p, c) ==
    IF sorted = <<>> THEN <<p>>
    ELSE IF AngleBefore(p, sorted[Len(sorted)], c)
         THEN Append(InsertByAngle(SubSeq(sorted, 1, Len(sorted) - 1), p, c),
                     sorted[Len(sorted)])
         ELSE Append(sorted, p)

RECURSIVE SortByAngle(_, _)
SortByAngle(seq, c) ==
    IF seq = <<>> THEN <<>>
    ELSE InsertByAngle(SortByAngle(SubSeq(seq, 1, Len(seq) - 1), c), seq[Len(seq)], c)

contourOf(buf) == SortByAngle(borderPixelsOf(buf), CentreOfMass(borderPixelsOf(buf)))

\* step 5: the length of the closed contour through the first i + 1 legs
RECURSIVE LengthTo(_, _)
LengthTo(contour, i) ==
    IF i = 0 THEN 0
    ELSE LET here == contour[i]
             there == contour[(i % Len(contour)) + 1]
             pdx == Num(there.x - here.x)
             pdy == Num(there.y - here.y)
         IN  FAdd(LengthTo(contour, i - 1), FSqrt(FAdd(FMul(pdx, pdx), FMul(pdy, pdy))))

totalLength(contour) == LengthTo(contour, Len(contour))

\* step 6 with Math.min in the place of Math.max
numPointsAtMost(contour, step) ==
    LET least == MathFloor(FDiv(totalLength(contour), Num(step * 3)))
    IN  IF least < 10 THEN least ELSE 10

\* step 6: Math.max(10, Math.floor(totalLength / spacing))
numPoints(contour, step) ==
    Max(10, MathFloor(FDiv(totalLength(contour), Num(step * 3))))

\* Math.floor((i / numPoints) * borderPixels.length)
SampleIndex(i, n, length) == MathFloor(FMul(FDiv(Num(i), Num(n)), Num(length)))

\* border mode: the points pushed, none when no pixel is visible
borderPoints(buf, step, sampleScale) ==
    IF \A y \in 0..(buf.height - 1), x \in 0..(buf.width - 1) : ~isWhite(buf, x, y)
    THEN <<>>
    ELSE LET contour == contourOf(buf)
             n == numPoints(contour, step)
         IN  [ k \in 1..n |->
                 SampledPoint(buf, contour[SampleIndex(k - 1, n, Len(contour)) + 1],
                              sampleScale) ]

\* let imageScale = 1
imageScale == One

\* autoAddParticlesFromSVG(): one particle per sampled point, the points
\* centred on the canvas (the layer input reads 1)
autoAddParticlesFromSVG(points, width, height) ==
    LET svgCenterX == FDiv(SumX(points), Num(Len(points)))
        svgCenterY == FDiv(SumY(points), Num(Len(points)))
        targetX(point) ==
            FAdd(FDiv(width, Num(2)), FMul(FMul(FSub(point.x, svgCenterX), Num(3)), imageScale))
        targetY(point) ==
            FAdd(FDiv(height, Num(2)), FMul(FMul(FSub(point.y, svgCenterY), Num(3)), imageScale))
    IN  [ i \in 1..Len(points) |->
            [ Particle(targetX(points[i]), targetY(points[i]), 1,
                       targetX(points[i]), targetY(points[i]), Undefined, 0, 0)
              EXCEPT !.sourceR = points[i].r, !.sourceG = points[i].g,
                     !.sourceB = points[i].b ] ]

\* processSampling that goes on to autoAddParticlesFromSVG() whatever it found
processSamplingThenAdd(samplingMode, step, sampleScale) ==
    /\ program = "editor"
    /\ Call
    /\ UNCHANGED rendererVars
    /\ outcome' = "ok"
    /\ sampling' = [ mode |-> samplingMode, step |-> step ]
    /\ LET points == IF samplingMode = "border"
                     THEN borderPoints(pixels, step, sampleScale)
                     ELSE fillPoints(pixels, step, sampleScale)
       IN  /\ svgPoints' = points
           /\ particles' = IF Len(points) > 0
                           THEN autoAddParticlesFromSVG(points, canvasWidth, canvasHeight)
                           ELSE <<>>
    /\ undisturbed' = FALSE
    /\ resized' = FALSE
    /\ UNCHANGED <<pixels, program, canvasVars, rotationCenterX, rotationCenterY, animTime,
                   storeVars, morphVars, morphSpeed, morphHistory>>

\* processSampling(tempCanvas, tempCtx, sampleScale, statusDiv) with the inputs
\* samplingMode and borderDensity read from the page, then applyExtrusion()
\* with the inputs extrusion at 0 and projections at 1
processSampling(samplingMode, step, sampleScale) ==
    /\ program = "editor"
    /\ Call
    /\ UNCHANGED rendererVars
    /\ outcome' = "ok"
    /\ sampling' = [ mode |-> samplingMode, step |-> step ]
    /\ LET points == IF samplingMode = "border"
                     THEN borderPoints(pixels, step, sampleScale)
                     ELSE fillPoints(pixels, step, sampleScale)
       IN  /\ svgPoints' = points
           /\ IF Len(points) > 0
              THEN /\ particles' = autoAddParticlesFromSVG(points, canvasWidth, canvasHeight)
                   /\ undisturbed' = FALSE
                   /\ resized' = FALSE
              ELSE UNCHANGED <<particles, undisturbed, resized>>
    /\ UNCHANGED <<pixels, program, canvasVars, rotationCenterX, rotationCenterY, animTime,
                   storeVars, morphVars, morphSpeed, morphHistory>>

(***************************************************************************)
(* Specification.                                                          *)
(***************************************************************************)
\* the editor's morph speed per tick: a half (two ticks per morph)
EditorSpeeds == {Half}

\* morphSpeed options of the renderer: a half and a ninth
RendererSpeeds == {Half, FDiv(One, Num(9))}

\* interchange objects offered to the renderer's loadFrames; ScenarioA holds the
\* one-point frames A and B
ScenarioA ==
    [version |-> TRUE, form |-> "frames",
     frames |-> <<FileFrame(<<"A", 0>>, TRUE,
                            <<FilePoint(0, 0, 0, Num(1), Num(2), Num(3))>>),
                  FileFrame(<<"B", 0>>, TRUE,
                            <<FilePoint(Num(10), Num(10), 0, Num(4), Num(5), Num(6))>>)>>]

LoadPayloads ==
    { ScenarioA, ExampleX,
      [version |-> FALSE, form |-> "frames",
       frames |-> <<FileFrame(<<"A", 0>>, TRUE, <<PointA>>),
                    FileFrame(NoName, TRUE, <<PointC, PointB>>),
                    FileFrame(<<"X", 0>>, TRUE, <<PointB, PointA, PointC>>)>>],
      [version |-> TRUE, form |-> "none", frames |-> <<>>] }

\* the state after construction, of either program
Constructed ==
    /\ program \in {"editor", "renderer"}
    /\ canvasWidth = InitialCanvas[1]
    /\ canvasHeight = InitialCanvas[2]
    /\ rotationCenterX = FDiv(InitialCanvas[1], Num(2))
    /\ rotationCenterY = FDiv(InitialCanvas[2], Num(2))
    /\ outcome = "ok"
    /\ request = "none"
    /\ calls = 0
    /\ animTime = 0
    /\ particles = <<>>
    /\ frames = <<>>
    /\ currentFrameIndex = 0
    /\ isMorphing = FALSE
    /\ morphProgress = 0
    /\ morphSpeed \in EditorSpeeds
    /\ existingCount = 0
    /\ targetPoints = <<>>
    /\ startedAt = 0
    /\ destination = NoFrame
    /\ undisturbed = FALSE
    /\ resized = FALSE
    /\ options \in [ morphSpeed : RendererSpeeds, scale : {One},
                     centerX : {Undefined}, centerY : {Undefined} ]
    /\ rParticles = <<>>
    /\ rFrames = <<>>
    /\ currentFrame = 0
    /\ running = FALSE
    /\ rAnimTime = 0
    /\ morphing = FALSE
    /\ rMorphProgress = 0
    /\ pending = 0
    /\ (program = "editor" => options.morphSpeed = Half)
    /\ (program = "renderer" => morphSpeed = Half)

NoTurn == [ x |-> 0, y |-> 0, z |-> 0 ]

Init ==
    /\ Constructed
    /\ origin = NoTurn
    /\ angles = NoTurn
    /\ position = NoTurn
    /\ stage = "start"
    /\ pixels = NoBuffer
    /\ sampling = NotSampled
    /\ svgPoints = <<>>
    /\ wireframeConnections = <<>>
    /\ wired = <<>>
    /\ drawn = <<>>
    /\ exported = NoFile
    /\ exportedFrom = <<>>

Next ==
    \/ addCurrentAsFrame /\ request' = "none" /\ UNCHANGED probes
    \/ \E index \in -1..Len(frames) : removeFrame(index) /\ request' = "none" /\ UNCHANGED probes
    \/ clearAllFrames /\ request' = "none" /\ UNCHANGED probes
    \/ \E data \in ImportPayloads : handleFrameImport(data) /\ request' = "none" /\ UNCHANGED probes
    \/ \E count \in {1, 3} : addParticles(count) /\ request' = "none" /\ UNCHANGED probes
    \/ clearParticles /\ request' = "none" /\ UNCHANGED probes
    \/ \E size \in CanvasSizes : resize(size) /\ request' = "none" /\ UNCHANGED probes
    \/ \E targetIndex \in -1..Len(frames) : morphToFrame(targetIndex) /\ request' = "morphTo" /\ UNCHANGED probes
    \/ morphToNextFrame /\ request' = "next" /\ UNCHANGED probes
    \/ morphToPrevFrame /\ request' = "prev" /\ UNCHANGED probes
    \/ \E ang \in Angles : animate(ang) /\ request' = "none" /\ UNCHANGED probes
    \/ \E data \in LoadPayloads : loadFrames(data) /\ request' = "none" /\ UNCHANGED probes
    \/ \E size \in CanvasSizes : rendererResize(size) /\ request' = "none" /\ UNCHANGED probes
    \/ start /\ request' = "none" /\ UNCHANGED probes
    \/ stop /\ request' = "none" /\ UNCHANGED probes
    \/ next /\ request' = "next" /\ UNCHANGED probes
    \/ prev /\ request' = "prev" /\ UNCHANGED probes
    \/ \E index \in -1..Len(rFrames) : goTo(index) /\ request' = "morphTo" /\ UNCHANGED probes
    \/ \E ang \in Angles : rAnimate(ang) /\ request' = "none" /\ UNCHANGED probes

Spec == Init /\ [][Next]_vars

(***************************************************************************)
(* The rotation taken alone: a position, given from the rotation centre,   *)
(* is put through the rotation with the angles (alpha, beta, gamma) and    *)
(* then through the rotations that are to take it back.                    *)
(***************************************************************************)
\* angle triples in quarter turns
QuarterTurns == [ x : -1..2, y : -1..2, z : -1..2 ]

\* x - centerX, y - centerY, z of a particle
Coordinates == { Num(-3), Half, Num(5) }
Positions == [ x : Coordinates, y : Coordinates, z : Coordinates ]

engineVars == <<program, canvasVars, outcome, request, editorVars, morphLocals, calls,
                rendererVars>>

RotationInit ==
    /\ Constructed
    /\ origin \in Positions
    /\ angles \in QuarterTurns
    /\ position = origin
    /\ stage = "start"
    /\ pixels = NoBuffer
    /\ sampling = NotSampled
    /\ svgPoints = <<>>
    /\ wireframeConnections = <<>>
    /\ wired = <<>>
    /\ drawn = <<>>
    /\ exported = NoFile
    /\ exportedFrom = <<>>

\* the rotation with the angles ang, made at the stage from, which leads to the stage to
Turned(from, to, ang) ==
    /\ stage = from
    /\ stage' = to
    /\ position' = Rotate(position, ang)
    /\ UNCHANGED <<engineVars, origin, angles, samplerVars, wireframeVars, exchangeVars>>

turn == Turned("start", "turned", angles)
turnBack == Turned("turned", "back", [ x |-> -angles.z, y |-> -angles.y, z |-> -angles.x ])
turnBackZ == Turned("turned", "backZ", [ x |-> 0, y |-> 0, z |-> -angles.z ])
turnBackY == Turned("backZ", "backY", [ x |-> 0, y |-> -angles.y, z |-> 0 ])
turnBackX == Turned("backY", "backX", [ x |-> -angles.x, y |-> 0, z |-> 0 ])

RotationNext == turn \/ turnBack \/ turnBackZ \/ turnBackY \/ turnBackX

RotationSpec == RotationInit /\ [][RotationNext]_vars

(***************************************************************************)
(* The sampler taken alone: a pixel buffer is drawn, and the editor        *)
(* samples it in either mode at each density, over an empty or a filled    *)
(* particle array.                                                         *)
(***************************************************************************)
Strides == 1..MaxStride
SamplingModes == {"border", "fill"}

\* every pattern of visible and hidden pixels on the grid
PatternBuffers ==
    { Buffer(GridWidth, GridHeight,
             [ k \in 1..(GridWidth * GridHeight) |-> IF k \in S THEN Lit ELSE Dark ]) :
        S \in SUBSET (1..(GridWidth * GridHeight)) }

\* pixels at the thresholds of isWhite: grey at 128, opaque white at alpha
\* 128, and green just above both
Faint == Pixel(128, 128, 128, 255)
Sheer == Pixel(255, 255, 255, 128)
Green == Pixel(0, 129, 0, 129)
ThresholdBuffers ==
    { Buffer(3, 1, <<Faint, Sheer, Green>>), Buffer(2, 2, <<Faint, Sheer, Sheer, Faint>>) }

\* a filled square: more border pixels than samples
Square(side) == Buffer(side, side, [ k \in 1..(side * side) |-> Lit ])

\* the four corners of a square: a contour long enough for more than ten samples
Corners(side) ==
    Buffer(side, side,
           [ k \in 1..(side * side) |->
               IF k \in {1, side, side * side - side + 1, side * side} THEN Lit ELSE Dark ])

LargeBuffers == { Square(4), Corners(12) }

Buffers == PatternBuffers \cup ThresholdBuffers \cup LargeBuffers

SamplingInit ==
    /\ Constructed
    /\ program = "editor"
    /\ origin = NoTurn
    /\ angles = NoTurn
    /\ position = NoTurn
    /\ stage = "start"
    /\ pixels \in Buffers
    /\ sampling = NotSampled
    /\ svgPoints = <<>>
    /\ wireframeConnections = <<>>
    /\ wired = <<>>
    /\ drawn = <<>>
    /\ exported = NoFile
    /\ exportedFrom = <<>>

SamplingNext ==
    \/ calls < MaxSamplingCalls /\ addParticles(1) /\ request' = "none"
          /\ UNCHANGED probes
    \/ \E samplingMode \in SamplingModes, step \in Strides :
          calls < MaxSamplingCalls /\ processSampling(samplingMode, step, One)
             /\ request' = "none"
             /\ UNCHANGED <<rotationProbe, wireframeVars, exchangeVars>>

SamplingSpec == SamplingInit /\ [][SamplingNext]_vars

(***************************************************************************)
(* The editor with its wireframe: particles are added, a file of three     *)
(* frames is imported, morphs are requested, the wireframe is built, and   *)
(* every tick draws its lines.  `wired` and `drawn` record which particles *)
(* a connection joined at the build and at the last tick; a particle is    *)
(* known by its base position, which only a morph changes.                 *)
(***************************************************************************)
WireframePayloads == { d \in ImportPayloads : d.version /\ Len(d.frames) = 3 }

BaseOfP(p) == <<p.baseX, p.baseY, p.baseZ>>

\* the base positions of the two particles of ps each connection names
Joined(connections, ps) ==
    [ k \in 1..Len(connections) |->
        <<BaseOfP(ps[connections[k][1] + 1]), BaseOfP(ps[connections[k][2] + 1])>> ]

WireframeInit ==
    /\ Constructed
    /\ program = "editor"
    /\ origin = NoTurn
    /\ angles = NoTurn
    /\ position = NoTurn
    /\ stage = "start"
    /\ pixels = NoBuffer
    /\ sampling = NotSampled
    /\ svgPoints = <<>>
    /\ wireframeConnections = <<>>
    /\ wired = <<>>
    /\ drawn = <<>>
    /\ exported = NoFile
    /\ exportedFrom = <<>>

WireframeNext ==
    \/ \E data \in WireframePayloads :
          /\ handleFrameImport(data)
          /\ request' = "none"
          /\ UNCHANGED <<rotationProbe, samplerVars, wireframeVars, exchangeVars>>
    \/ /\ addParticles(3)
       /\ request' = "none"
       /\ UNCHANGED <<rotationProbe, samplerVars, wireframeVars, exchangeVars>>
    \/ \E targetIndex \in 0..(Len(frames) - 1) :
          /\ morphToFrame(targetIndex)
          /\ request' = "morphTo"
          /\ UNCHANGED <<rotationProbe, samplerVars, wireframeVars, exchangeVars>>
    \/ \E checked \in BOOLEAN :
          /\ updateWireframe(checked)
          /\ request' = "none"
          /\ wired' = Joined(wireframeConnections', particles)
          /\ drawn' = <<>>
          /\ UNCHANGED <<rotationProbe, samplerVars, exchangeVars>>
    \/ \E ang \in Angles :
          /\ animate(ang)
          /\ request' = "none"
          /\ wired' = (IF isMorphing THEN <<>> ELSE wired)
          /\ drawn' = Joined(LinesDrawn(wireframeConnections, particles'), particles')
          /\ UNCHANGED <<wireframeConnections, rotationProbe, samplerVars, exchangeVars>>

WireframeSpec == WireframeInit /\ [][WireframeNext]_vars

(***************************************************************************)
(* The editor and its files: frames are imported and made of particles,    *)
(* the store is exported, cleared, and the exported file imported.         *)
(***************************************************************************)
ExchangeInit ==
    /\ Constructed
    /\ program = "editor"
    /\ origin = NoTurn
    /\ angles = NoTurn
    /\ position = NoTurn
    /\ stage = "start"
    /\ pixels = NoBuffer
    /\ sampling = NotSampled
    /\ svgPoints = <<>>
    /\ wireframeConnections = <<>>
    /\ wired = <<>>
    /\ drawn = <<>>
    /\ exported = NoFile
    /\ exportedFrom = <<>>

ExchangeNext ==
    \/ \E data \in ImportPayloads :
          /\ handleFrameImport(data)
          /\ request' = "none"
          /\ UNCHANGED probes
    \/ /\ addParticles(1)
       /\ request' = "none"
       /\ UNCHANGED probes
    \/ /\ addCurrentAsFrame
       /\ request' = "none"
       /\ UNCHANGED probes
    \/ /\ clearAllFrames
       /\ request' = "none"
       /\ UNCHANGED probes
    \/ /\ exportAllFrames
       /\ request' = "none"
       /\ UNCHANGED <<rotationProbe, samplerVars, wireframeVars>>
    \/ /\ exported # NoFile
       /\ handleFrameImport(exported)
       /\ request' = "none"
       /\ UNCHANGED probes

ExchangeSpec == ExchangeInit /\ [][ExchangeNext]_vars

(***************************************************************************)
(* What the properties below observe, in either program.                   *)
(***************************************************************************)
InMorph == IF program = "editor" THEN isMorphing ELSE morphing
Progress == IF program = "editor" THEN morphProgress ELSE rMorphProgress
Index == IF program = "editor" THEN currentFrameIndex ELSE currentFrame
Store == IF program = "editor" THEN frames ELSE rFrames
Ticks == IF program = "editor" THEN animTime ELSE rAnimTime
Speed == IF program = "editor" THEN morphSpeed ELSE options.morphSpeed
ParticleSet == IF program = "editor" THEN particles ELSE rParticles
Count == Len(ParticleSet)

BaseOf(p) == <<p.baseX, p.baseY, p.baseZ>>
ColourOf(p) == IF program = "editor" THEN <<p.sourceR, p.sourceG, p.sourceB>>
               ELSE <<p.r, p.g, p.b>>
FlagOf(p) == IF program = "editor" THEN p.markedForRemoval ELSE p.remove
TargetPositionOf(p) == <<p.morphTargetX, p.morphTargetY, p.morphTargetZ>>
TargetColourOf(p) == <<p.morphTargetR, p.morphTargetG, p.morphTargetB>>

\* the multiset of the values f takes on the elements of a sequence
BagOf(seq, f(_)) ==
    LET values == { f(seq[i]) : i \in DOMAIN seq }
    IN  [ v \in values |-> Cardinality({ i \in DOMAIN seq : f(seq[i]) = v }) ]

\* a morph has run to its end and nothing else has touched the particles since
Completed == undisturbed /\ ~InMorph /\ Progress = One

\* some tick of either loop
Tick == \E ang \in Angles : animate(ang) \/ rAnimate(ang)

(***************************************************************************)
(* Properties.                                                             *)
(***************************************************************************)
\* C1: a morph from N >= 1 particles to a frame of M >= 1 points holds
\* max(N, M) particles while it is in progress and exactly M once it has
\* completed and the flagged particles are purged.
CountConserved ==
    (undisturbed /\ existingCount >= 1 /\ Len(targetPoints) >= 1) =>
        /\ InMorph => Count = Max(existingCount, Len(targetPoints))
        /\ Completed => Count = Len(targetPoints)

\* a morph of three particles to a one-point frame has completed
CountConservedWitness ==
    /\ Completed
    /\ existingCount = 3
    /\ Len(targetPoints) = 1
    /\ Count = 1

\* C2: at the end of the tick that completes a morph, every surviving
\* particle's base position equals its morph target position and its colour
\* its morph target colour, exactly.
EndpointExact ==
    [][ (InMorph /\ ~InMorph') =>
          \A i \in DOMAIN ParticleSet' :
             /\ BaseOf(ParticleSet'[i]) = TargetPositionOf(ParticleSet'[i])
             /\ ColourOf(ParticleSet'[i]) = TargetColourOf(ParticleSet'[i]) ]_vars

\* the point of a frame of the editor as setMorphTarget reads it
PointRead(point) ==
    <<point.targetX, point.targetY, OrElse(point.baseZ, 0),
      IF point.r # Undefined THEN point.r ELSE Num(DefaultR),
      IF point.g # Undefined THEN point.g ELSE Num(DefaultG),
      IF point.b # Undefined THEN point.b ELSE Num(DefaultB)>>

PointHeld(p) == BaseOf(p) \o ColourOf(p)
PointAimedAt(p) == TargetPositionOf(p) \o TargetColourOf(p)

\* C3: in the editor, once a morph to a frame has completed, the particles
\* correspond one to one to the frame's points, each with the base position
\* and colour stored for its point.
OneToOne ==
    (program = "editor" /\ Completed) =>
        BagOf(particles, PointHeld) = BagOf(targetPoints, PointRead)

\* the morph targets of the editor's particles correspond one to one to the
\* points of the frame (what remains of C3 when the positions are left out)
TargetsOneToOne ==
    (program = "editor" /\ Completed) =>
        BagOf(particles, PointAimedAt) = BagOf(targetPoints, PointRead)

PointGiven(t) == <<t.x, t.y, t.z, t.r, t.g, t.b>>

Request ==
    \/ \E t \in -1..MaxFrames : morphToFrame(t) \/ goTo(t)
    \/ morphToNextFrame
    \/ morphToPrevFrame
    \/ next
    \/ prev

\* what a morph fixes of a particle: its start, its target and its flag
FixedOf(p) ==
    <<p.morphStartX, p.morphStartY, p.morphStartZ,
      p.morphStartR, p.morphStartG, p.morphStartB>> \o PointAimedAt(p) \o <<FlagOf(p)>>

\* the morph controller and the particle set are as they were
MorphUntouched ==
    UNCHANGED <<particles, rParticles, frames, rFrames, isMorphing, morphing,
                morphProgress, rMorphProgress, currentFrameIndex, currentFrame>>

\* C5: while a morph is in progress every morph request is rejected and leaves
\* progress, current index and particles as they were; a tick within the morph
\* leaves the count, the index and every particle's start, target and flag as
\* they were; a tick never starts a morph.
NotInterrupted ==
    [][ /\ (InMorph /\ Request) => (MorphUntouched /\ outcome' = "ok")
        /\ (InMorph /\ InMorph' /\ Tick) =>
              /\ Count' = Count
              /\ Index' = Index
              /\ Store' = Store
              /\ BagOf(ParticleSet', FixedOf) = BagOf(ParticleSet, FixedOf)
        /\ (~InMorph /\ Tick) => (~InMorph' /\ Progress' = Progress) ]_vars

\* a morph request has just been made in a morph that ticks had advanced
NotInterruptedWitness == InMorph /\ Progress > 0 /\ request # "none"

\* C6: a morph request for the current index, or for an index below 0 or not
\* below the number of frames, changes nothing and raises nothing.
InvalidIndexNoOp ==
    [][ \A t \in -1..MaxFrames :
          ((t = Index \/ t < 0 \/ t >= Len(Store)) /\ (morphToFrame(t) \/ goTo(t)))
             => (MorphUntouched /\ outcome' = "ok") ]_vars

\* a morphTo request was just made of an idle program that has frames and
\* particles, and no morph started
InvalidIndexNoOpWitness ==
    /\ request = "morphTo"
    /\ outcome = "ok"
    /\ ~InMorph
    /\ Len(Store) >= 2
    /\ Count >= 1

\* ceil(1 / s)
CeilInv(s) == (One + s - 1) \div s

\* ticks since the last accepted morph started
MorphTicks == Ticks - startedAt

\* progress never decreases within a morph and returns to 0 only when a morph
\* starts
ProgressSteps ==
    /\ (InMorph /\ InMorph') => Progress' >= Progress
    /\ (Progress # 0 /\ Progress' = 0) => (~InMorph /\ InMorph' /\ Request)

\* C7 as first stated: a morph is over within ceil(1 / s) ticks.
TerminatesInCeil ==
    /\ [](InMorph => MorphTicks < CeilInv(Speed))
    /\ [](0 <= Progress /\ Progress <= One)
    /\ [][ProgressSteps]_vars

\* C7: a morph is over within ceil(1 / s) + 1 ticks (the sum of the steps is
\* rounded), progress stays within [0, 1], never decreases within a morph and
\* returns to 0 only when a morph starts.
TerminatesInCeilPlusOne ==
    /\ [](InMorph => MorphTicks <= CeilInv(Speed))
    /\ [](0 <= Progress /\ Progress <= One)
    /\ [][ProgressSteps]_vars

\* a morph is still in progress after ceil(1 / s) ticks
TerminatesWitness == InMorph /\ MorphTicks = CeilInv(Speed)

\* the current index denotes the frame the morph was started towards
Denotes == Index < Len(Store) /\ Store[Index + 1] = destination

\* an operation that edits the frame list: addFrame, removeFrame, clear, and the
\* renderer's loadFrames, which replaces the list
StoreEdit ==
    \/ addCurrentAsFrame
    \/ \E index \in -1..MaxFrames : removeFrame(index)
    \/ clearAllFrames
    \/ \E data \in LoadPayloads : loadFrames(data)

\* an accepted morph request enters Morphing at progress 0 with the target as
\* the current index
AcceptSteps ==
    \A t \in -1..MaxFrames :
        ((morphToFrame(t) \/ goTo(t)) /\ ~InMorph /\ InMorph') =>
            (Progress' = 0 /\ Index' = t /\ Denotes')

\* C8 as first stated: throughout a morph the current index denotes the
\* destination frame, whatever Frame Store operations interleave.
DestinationKept ==
    /\ [][AcceptSteps]_vars
    /\ [](InMorph => Denotes)

\* C8: an accepted request enters Morphing at progress 0 with the target as
\* current index, and the index keeps denoting the destination under ticks,
\* imports and every other step that is not addFrame, removeFrame, clear or
\* loadFrames.
DestinationKeptByTicksAndImports ==
    [][ /\ AcceptSteps
        /\ (InMorph /\ InMorph' /\ Denotes /\ ~StoreEdit) => Denotes' ]_vars

\* frames were imported into the editor's store while a morph was ticking, and
\* the index still denotes the destination
DestinationKeptWitness ==
    /\ program = "editor"
    /\ InMorph
    /\ Progress > 0
    /\ Denotes
    /\ Len(frames) = 3
    /\ frames[3].name = <<"X", 0>>

\* C9: next() and prev() act as morphTo((current + 1) mod frameCount) and
\* morphTo((current - 1) mod frameCount), and change nothing when there are
\* fewer than two frames or a morph is in progress.
NextPrevWrap ==
    [][ /\ (morphToNextFrame \/ next) =>
              IF Len(Store) < 2 \/ InMorph
              THEN MorphUntouched /\ outcome' = "ok"
              ELSE /\ morphToFrame((Index + 1) % Len(Store))
                      \/ goTo((Index + 1) % Len(Store))
                   /\ outcome' = "ok" =>
                         (InMorph' /\ Index' = (Index + 1) % Len(Store) /\ Denotes')
        /\ (morphToPrevFrame \/ prev) =>
              IF Len(Store) < 2 \/ InMorph
              THEN MorphUntouched /\ outcome' = "ok"
              ELSE /\ morphToFrame((Index - 1 + Len(Store)) % Len(Store))
                      \/ goTo((Index - 1 + Len(Store)) % Len(Store))
                   /\ outcome' = "ok" =>
                         (InMorph' /\ Index' = (Index - 1 + Len(Store)) % Len(Store)
                          /\ Denotes') ]_vars

\* prev has just wrapped from index 0 to the last of three frames
NextPrevWrapWitness ==
    /\ request = "prev"
    /\ InMorph
    /\ Progress = 0
    /\ Len(Store) = 3
    /\ Index = 2
    /\ Denotes

\* C10: at most one _animate callback is scheduled at any time.
AtMostOneCallback == program = "renderer" => pending <= 1

(***************************************************************************)
(* C11.  resize() of the renderer.                                         *)
(***************************************************************************)
PositionOf(t) == <<t.x, t.y, t.z>>

\* the particles are those of the current frame: one per point, each based
\* at its point re-centred on the centre of the canvas as it is now
Reloaded ==
    /\ Len(rFrames) > 0
    /\ LET centred == Centred(rFrames[currentFrame + 1].points,
                              CenterX(options, canvasWidth),
                              CenterY(options, canvasHeight), options.scale)
       IN  /\ Len(rParticles) = Len(centred)
           /\ BagOf(rParticles, BaseOf) = BagOf(centred, PositionOf)

\* C11: after resize() on a renderer with a frame loaded, called in Idle or in
\* Morphing, there is one particle per point of the current frame, each based
\* at its point re-centred on the new canvas centre, and the ticks that
\* follow keep those base positions until a new morph request or a load.
ResizeReloads == (program = "renderer" /\ resized) => Reloaded

(***************************************************************************)
(* C12.  The resize listeners of the editor.                               *)
(***************************************************************************)
\* where a particle's base position lies from the rotation centre (cx, cy)
OffsetOf(p, cx, cy) == <<p.baseX - cx, p.baseY - cy>>

\* C12: a resize of the editor's window recomputes the rotation centre as the
\* centre of the canvas and re-derives the base position of every particle
\* against it: each particle's offset from the rotation centre is the same
\* after the resize as before it.
ResizeKeepsOffsets ==
    [][ (\E size \in CanvasSizes : resize(size)) =>
          /\ rotationCenterX' = FDiv(canvasWidth', Num(2))
          /\ rotationCenterY' = FDiv(canvasHeight', Num(2))
          /\ Len(particles') = Len(particles)
          /\ \A i \in 1..Len(particles) :
                OffsetOf(particles'[i], rotationCenterX', rotationCenterY') =
                OffsetOf(particles[i], rotationCenterX, rotationCenterY) ]_vars

(***************************************************************************)
(* C13.  Payloads an import must reject.                                   *)
(***************************************************************************)
\* the payload has no version marker, or has neither `frame` nor `frames`
Malformed(data) == ~data.version \/ data.form = "none"

\* C13: an import of a payload without a version marker, or with a version
\* but neither `frame` nor `frames`, is rejected, and the Frame Store (the
\* frames, their order, the current index) is left exactly as it was; the
\* editor's import and the renderer's loadFrames alike.
MalformedRejected ==
    [][ \A data \in ImportPayloads \union LoadPayloads :
          (Malformed(data) /\ (handleFrameImport(data) \/ loadFrames(data))) =>
              /\ outcome' # "ok"
              /\ Store' = Store
              /\ Index' = Index ]_vars

\* the editor's import alone does reject them
MalformedRejectedByEditor ==
    [][ \A data \in ImportPayloads :
          (Malformed(data) /\ handleFrameImport(data)) =>
              /\ outcome' = "alert"
              /\ Store' = Store
              /\ Index' = Index ]_vars

(***************************************************************************)
(* C14.  A successful import appends.                                      *)
(***************************************************************************)
\* the stored frame f holds the payload frame g: under g's name if it has
\* one, with one point per point of g, in g's order, at its x and y
HoldsFrame(f, g) ==
    /\ g.name # NoName => f.name = g.name
    /\ f.pointCount = Len(g.points)
    /\ Len(f.points) = Len(g.points)
    /\ \A i \in 1..Len(g.points) :
          /\ f.points[i].targetX = g.points[i].x
          /\ f.points[i].targetY = g.points[i].y

\* C14: a successful import appends: with k frames in the store and a payload
\* of n frames (n = 1 for the single-frame form) the store afterwards holds
\* k + n frames, the first k the previous frames unchanged and in order, the
\* last n the imported frames in payload order; the current index is unchanged.
ImportAppends ==
    [][ \A data \in ImportPayloads :
          (handleFrameImport(data) /\ outcome' = "ok") =>
              LET k == Len(frames)
                  n == Len(data.frames)
              IN  /\ Len(frames') = k + n
                  /\ SubSeq(frames', 1, k) = frames
                  /\ \A j \in 1..n : HoldsFrame(frames'[k + j], data.frames[j])
                  /\ currentFrameIndex' = currentFrameIndex ]_vars

\* two frames were imported behind a frame made of the particles
ImportAppendsWitness ==
    /\ program = "editor"
    /\ outcome = "ok"
    /\ Len(frames) = 3
    /\ frames[1].name = <<"Frame", 1>>
    /\ frames[2].name = <<"E", 0>>
    /\ frames[3].name = <<"A", 0>>
    /\ currentFrameIndex = 0

(***************************************************************************)
(* C15.  Import normalises points.                                         *)
(***************************************************************************)
\* a point of a payload with the defaults of the interchange format filled in
Normalised(p) ==
    <<p.x, p.y,
      IF p.z = Undefined THEN 0 ELSE p.z,
      IF p.r = Undefined THEN Num(DefaultR) ELSE p.r,
      IF p.g = Undefined THEN Num(DefaultG) ELSE p.g,
      IF p.b = Undefined THEN Num(DefaultB) ELSE p.b>>

\* the six fields of a point of a stored frame, as they are stored
PointStored(point) ==
    IF program = "editor"
    THEN <<point.targetX, point.targetY, point.baseZ, point.r, point.g, point.b>>
    ELSE PointGiven(point)

\* the six fields of a point of a stored frame as a morph to the frame reads
\* them: the editor through setMorphTarget, the renderer as they are stored
PointUsed(point) ==
    IF program = "editor"
    THEN PointAimedAt(setMorphTarget(Particle(0, 0, 0, 0, 0, 0, 0, 0), point))
    ELSE PointGiven(point)

\* the frames of the payload data are the last frames of the store, every
\* point of theirs giving, through the observer Fields, the normalised point
ImportedAs(data, st, Fields(_)) ==
    LET n == Len(data.frames)
        k == Len(st) - n
    IN  /\ k >= 0
        /\ \A j \in 1..n :
              /\ Len(st[k + j].points) = Len(data.frames[j].points)
              /\ \A i \in 1..Len(data.frames[j].points) :
                    Fields(st[k + j].points[i]) = Normalised(data.frames[j].points[i])

\* the store st ends with exactly the frame "X" of ExampleX, whose single
\* point gives (1, 1, 0) and the colour (74, 222, 128)
ExampleImportedAs(st, Fields(_)) ==
    /\ Len(st) >= 1
    /\ st[Len(st)].name = <<"X", 0>>
    /\ Len(st[Len(st)].points) = 1
    /\ Fields(st[Len(st)].points[1]) =
          <<Num(1), Num(1), 0, Num(74), Num(222), Num(128)>>

\* an import or a load of data that succeeded
Imported(data) == (handleFrameImport(data) \/ loadFrames(data)) /\ outcome' = "ok"

IndexValid ==
    IF Len(frames) = 0 THEN currentFrameIndex = 0
    ELSE 0 <= currentFrameIndex /\ currentFrameIndex < Len(frames)

\* C16: in the editor the current frame index is 0 while the store is empty
\* and names a frame otherwise, whatever adds, removals, clears, imports and
\* morphs were made; removeFrame moves an index left past the end to the last
\* frame (0 when none is left) and keeps any other, clearAllFrames resets it to 0.
IndexValidity ==
    /\ program = "editor" => IndexValid
    /\ [][ program = "editor" =>
             /\ IndexValid'
             /\ (\E index \in -1..Len(frames) : removeFrame(index)) =>
                   currentFrameIndex' =
                      IF currentFrameIndex >= Len(frames')
                      THEN Max(0, Len(frames') - 1)
                      ELSE currentFrameIndex
             /\ clearAllFrames => (frames' = <<>> /\ currentFrameIndex' = 0) ]_vars

\* the first of two frames was removed while the second was the current one
IndexValidityWitness ==
    /\ program = "editor"
    /\ Len(frames) = 1
    /\ frames[1].name = <<"Frame", 2>>
    /\ currentFrameIndex = 0

(***************************************************************************)
(* C17.  removeFrame(index).                                               *)
(***************************************************************************)
\* what removeFrame(index) is to do to a store fs and a current index cur
RemovesExactly(index, fs, cur, fs2, cur2) ==
    IF index < 0 \/ index >= Len(fs)
    THEN fs2 = fs /\ cur2 = cur
    ELSE fs2 = SubSeq(fs, 1, index) \o SubSeq(fs, index + 2, Len(fs))

\* C17: removeFrame(index) with an index that names no frame (index < 0 or
\* index >= frameCount) changes neither the frames nor the current index; with
\* a valid index it removes exactly that frame and keeps the order of the others.
RemoveFrameExact ==
    [][ \A index \in -1..Len(frames) :
          removeFrame(index) =>
              RemovesExactly(index, frames, currentFrameIndex,
                             frames', currentFrameIndex') ]_vars

\* the same for the indices from 0 on
RemoveFrameExactFromZero ==
    [][ \A index \in 0..Len(frames) :
          removeFrame(index) =>
              RemovesExactly(index, frames, currentFrameIndex,
                             frames', currentFrameIndex') ]_vars

(***************************************************************************)
(* C18.  addCurrentAsFrame.                                                *)
(***************************************************************************)
\* the frame f is made of the particles ps: one point per particle, in the
\* order of ps, at its base position and with its source colour
MadeOf(f, ps) ==
    /\ f.pointCount = Len(ps)
    /\ Len(f.points) = Len(ps)
    /\ \A i \in 1..Len(ps) : PointStored(f.points[i]) = PointHeld(ps[i])

\* C18: addCurrentAsFrame on a non-empty particle set appends exactly one
\* frame, made of the particles' base positions and source colours in particle
\* order, with pointCount the particle count and the name "Frame N", N the
\* new frame count, and makes it the current frame; on an empty particle set
\* it changes nothing.
AddFrameAppends ==
    [][ addCurrentAsFrame =>
          IF Len(particles) = 0
          THEN UNCHANGED editorVars
          ELSE /\ Len(frames') = Len(frames) + 1
               /\ SubSeq(frames', 1, Len(frames)) = frames
               /\ frames'[Len(frames')].name = <<"Frame", Len(frames')>>
               /\ MadeOf(frames'[Len(frames')], particles)
               /\ currentFrameIndex' = Len(frames') - 1 ]_vars

\* a third frame was made of the particles in the middle of a morph
AddFrameAppendsWitness ==
    /\ program = "editor"
    /\ Len(frames) = 3
    /\ frames[3].name = <<"Frame", 3>>
    /\ currentFrameIndex = 2
    /\ Len(particles) >= 1
    /\ isMorphing
    /\ MadeOf(frames[3], particles)
    /\ \E i \in 1..Len(particles) : BaseOf(particles[i]) # TargetPositionOf(particles[i])

(***************************************************************************)
(* C19.  The frame store operations and the live particles.                *)
(***************************************************************************)
\* an operation of the editor's frame store
FrameStoreOp ==
    \/ addCurrentAsFrame
    \/ \E index \in -1..Len(frames) : removeFrame(index)
    \/ clearAllFrames
    \/ \E data \in ImportPayloads : handleFrameImport(data)

\* C19: addCurrentAsFrame, removeFrame, clearAllFrames and an import leave the
\* particles (their number, order, base positions, colours, morph starts and
\* targets, removal flags), the Morphing/Idle state and the interpolation
\* parameter as they were.
StoreOpsLeaveParticles ==
    [][ FrameStoreOp => UNCHANGED <<particles, isMorphing, morphProgress>> ]_vars

\* the store was cleared in the middle of a morph, which is still in progress
StoreOpsLeaveParticlesWitness ==
    /\ program = "editor"
    /\ frames = <<>>
    /\ isMorphing
    /\ 0 < morphProgress /\ morphProgress < One
    /\ Len(particles) >= 1

(***************************************************************************)
(* C20.  Rotating there and back (under RotationSpec).                     *)
(***************************************************************************)
\* C20 as first stated: the rotation with (alpha, beta, gamma) followed by the
\* rotation with (-gamma, -beta, -alpha) about the same centre restores the
\* position.
RoundTrip == stage = "back" => position = origin

\* C20: the rotation with (alpha, beta, gamma) is undone by three rotations
\* about the same centre, with (0, 0, -gamma), then (0, -beta, 0), then
\* (-alpha, 0, 0), which take the axes back in the reverse order; the one
\* rotation with (-gamma, -beta, -alpha) undoes it when alpha and gamma are
\* both 0.
RoundTripReversed ==
    /\ stage = "backX" => position = origin
    /\ (stage = "back" /\ angles.x = 0 /\ angles.z = 0) => position = origin

\* a position off the centre in all three directions was turned about all
\* three axes, by different angles, and taken back
RoundTripWitness ==
    /\ stage = "backX"
    /\ origin = [ x |-> Num(-3), y |-> Half, z |-> Num(5) ]
    /\ angles = [ x |-> 1, y |-> -1, z |-> 2 ]
    /\ position = origin

(***************************************************************************)
(* C21.  Fill mode at two densities (under SamplingSpec).                  *)
(***************************************************************************)
\* the positions of the grid of stride s, inside the buffer, whose pixel is visible
VisibleOnGrid(buf, s) ==
    { c \in (0..(buf.width - 1)) \X (0..(buf.height - 1)) :
        c[1] % s = 0 /\ c[2] % s = 0 /\ isWhite(buf, c[1], c[2]) }

FillSampled == sampling.mode = "fill"

\* C21 as stated: after a fill-mode sampling with stride s1 the points
\* emitted are at least as many as the visible grid positions of every
\* larger stride s2
FillMonotone ==
    FillSampled =>
        \A s2 \in Strides :
            sampling.step < s2 => Len(svgPoints) >= Cardinality(VisibleOnGrid(pixels, s2))

\* C21, amended: a fill-mode sampling with stride s1 emits one point per
\* visible grid position, and at least as many points as the grid of every
\* larger stride s2 that s1 divides holds visible positions
FillMonotoneDividing ==
    FillSampled =>
        /\ Len(svgPoints) = Cardinality(VisibleOnGrid(pixels, sampling.step))
        /\ \A s2 \in Strides :
              (sampling.step < s2 /\ s2 % sampling.step = 0) =>
                  Len(svgPoints) >= Cardinality(VisibleOnGrid(pixels, s2))

\* a fill-mode sampling with stride 1 of a buffer whose grid of stride 2 holds
\* visible pixels, but fewer
FillMonotoneWitness ==
    /\ FillSampled
    /\ sampling.step = 1
    /\ Cardinality(VisibleOnGrid(pixels, 2)) > 0
    /\ Len(svgPoints) > Cardinality(VisibleOnGrid(pixels, 2))
(***************************************************************************)
(* C25.  Border mode (under SamplingSpec).                                 *)
(***************************************************************************)
Visible(buf) ==
    { c \in (0..(buf.width - 1)) \X (0..(buf.height - 1)) : isWhite(buf, c[1], c[2]) }

\* a visible pixel with a 4-neighbour that is not visible; what lies outside
\* the buffer is not visible
OnBorder(buf) ==
    { c \in Visible(buf) :
        \E d \in {<<1, 0>>, <<0, 1>>, <<-1, 0>>, <<0, -1>>} :
            <<c[1] + d[1], c[2] + d[2]>> \notin Visible(buf) }

BorderSampled == sampling.mode = "border" /\ Visible(pixels) # {}

\* the border pixels in the order of their angles about their centre of mass
IsContour(contour, buf) ==
    /\ { <<contour[k].x, contour[k].y>> : k \in 1..Len(contour) } = OnBorder(buf)
    /\ Len(contour) = Cardinality(OnBorder(buf))
    /\ \A j, k \in 1..Len(contour) :
          j < k => ~AngleBefore(contour[k], contour[j], CentreOfMass(contour))

\* C25: a border-mode sampling of a buffer with a visible pixel emits
\* n = max(10, floor(perimeter / (density * 3))) points, the i-th (from 0) is
\* the pixel at index floor(i / n * B) of the B border pixels sorted by
\* angle, that index is valid, and every point is a border pixel
BorderSamples ==
    BorderSampled =>
        LET contour == contourOf(pixels)
            B == Len(contour)
            n == Max(10, MathFloor(FDiv(totalLength(contour), Num(sampling.step * 3))))
        IN  /\ IsContour(contour, pixels)
            /\ Len(svgPoints) = n
            /\ \A i \in 0..(n - 1) :
                  LET idx == MathFloor(FMul(FDiv(Num(i), Num(n)), Num(B)))
                  IN  /\ idx \in 0..(B - 1)
                      /\ svgPoints[i + 1].x = Num(contour[idx + 1].x)
                      /\ svgPoints[i + 1].y = Num(contour[idx + 1].y)
            /\ \A i \in 1..Len(svgPoints) :
                  /\ svgPoints[i].x % One = 0
                  /\ svgPoints[i].y % One = 0
                  /\ <<svgPoints[i].x \div One, svgPoints[i].y \div One>> \in OnBorder(pixels)

\* the four corners of the large square were sampled at density 1: fourteen
\* points from four border pixels, so pixels repeat
BorderSamplesWitness ==
    /\ BorderSampled
    /\ pixels = Corners(12)
    /\ sampling.step = 1
    /\ Len(svgPoints) = 14
    /\ svgPoints[1].x = svgPoints[2].x /\ svgPoints[1].y = svgPoints[2].y

(***************************************************************************)
(* C26.  A source with no visible pixel (under SamplingSpec).              *)
(***************************************************************************)
Sampling == \E samplingMode \in SamplingModes, step \in Strides :
                processSampling(samplingMode, step, One)

\* C26: a sampling of a buffer without a visible pixel, in either mode,
\* leaves no point, and leaves the particles, the frame store and the morph
\* state as they were
EmptySource ==
    [][ (Sampling /\ Visible(pixels) = {}) =>
            /\ svgPoints' = <<>>
            /\ outcome' = "ok"
            /\ UNCHANGED <<particles, storeVars, morphVars, morphHistory>> ]_vars

\* a buffer without a visible pixel was sampled in border mode over a
\* particle that was there before
EmptySourceWitness ==
    /\ sampling.mode = "border"
    /\ Visible(pixels) = {}
    /\ pixels.width > 0
    /\ svgPoints = <<>>
    /\ Len(particles) = 1
(***************************************************************************)
(* C22.  Base and morph target while no morph is in progress.              *)
(***************************************************************************)
\* C22: while no morph is in progress the base position of every particle
\* is its morph target position
NoResidualDrift ==
    ~InMorph => \A i \in 1..Count : BaseOf(ParticleSet[i]) = TargetPositionOf(ParticleSet[i])
(***************************************************************************)
(* C23.  The particles right after a morph request is accepted.            *)
(***************************************************************************)
AcceptStep == ~InMorph /\ InMorph'

StartOf(p) == <<p.morphStartX, p.morphStartY, p.morphStartZ,
                p.morphStartR, p.morphStartG, p.morphStartB>>

\* point i of the frame as it is stored
PointStoredAt(frame, i) ==
    IF program = "editor" THEN PointRead(frame.points[i]) ELSE PointGiven(frame.points[i])

\* point i of the frame as the program places it: the renderer centres the
\* frame on the canvas and scales it
PointPlacedAt(frame, i) ==
    IF program = "editor" THEN PointRead(frame.points[i])
    ELSE PointGiven(Centred(frame.points, CenterX(options, canvasWidth),
                            CenterY(options, canvasHeight), options.scale)[i])

\* the step from N particles to a morph towards the frame, Target(frame, i)
\* the i-th point of the frame
AcceptedTowards(Target(_, _)) ==
    LET N == Count
        frame == Store'[Index' + 1]
        M == Len(frame.points)
    IN  /\ Count' = Max(N, M)
        /\ \A i \in 1..Count' :
              IF i <= M
              THEN /\ ~FlagOf(ParticleSet'[i])
                   /\ StartOf(ParticleSet'[i]) = PointHeld(ParticleSet'[i])
                   /\ PointAimedAt(ParticleSet'[i]) = Target(frame, i)
              ELSE /\ FlagOf(ParticleSet'[i])
                   /\ \E j \in 1..M : PointAimedAt(ParticleSet'[i]) = Target(frame, j)

\* C23 as stated: right after a morph request is accepted with N particles
\* and a target frame of M points there are max(N, M) particles; those from
\* M on, and only those, are flagged and aim at some point of the frame; the
\* i-th below M starts from its own base position and colour and aims at
\* point i of the frame as stored
MorphAcceptedAsStored == [][ AcceptStep => AcceptedTowards(PointStoredAt) ]_vars

\* C23, amended: the same, with the points of the frame as the program
\* places them (in the renderer centred on the canvas and scaled)
MorphAccepted == [][ AcceptStep => AcceptedTowards(PointPlacedAt) ]_vars

\* a morph towards a frame off the centre of the canvas was just accepted by
\* the renderer, with a particle more than the frame has points
MorphAcceptedWitness ==
    /\ program = "renderer"
    /\ morphing
    /\ rMorphProgress = 0
    /\ Count > Len(rFrames[currentFrame + 1].points)
    /\ FlagOf(rParticles[Count])
    /\ ~FlagOf(rParticles[1])
    /\ PointStoredAt(rFrames[currentFrame + 1], 1) # PointPlacedAt(rFrames[currentFrame + 1], 1)
(***************************************************************************)
(* C24.  The wireframe and the particles it joins (under WireframeSpec).   *)
(***************************************************************************)
\* C24: every line a tick draws joins two particles that were joined when
\* updateWireframe built the connections (as long as no morph has moved the
\* particles since, so that a particle is known by its base position)
WireframeAttached ==
    wired # <<>> =>
        \A k \in 1..Len(drawn) :
            {drawn[k][1], drawn[k][2]} \in { {wired[j][1], wired[j][2]} : j \in 1..Len(wired) }
(***************************************************************************)
(* C27.  An import of a file with a frame that has no point list.          *)
(***************************************************************************)
\* a versioned file of several frames, one of them without a points list
LacksPoints(data) ==
    /\ data.version
    /\ data.form = "frames"
    /\ \E k \in 1..Len(data.frames) : ~data.frames[k].hasPoints

\* C27: the import of a versioned multi-frame file in which a frame has no
\* points list fails and leaves the frame store as it was
ImportAllOrNothing ==
    [][ \A data \in ImportPayloads :
          (LacksPoints(data) /\ handleFrameImport(data)) =>
              (outcome' = "alert" /\ frames' = frames) ]_vars
(***************************************************************************)
(* C28.  Morph requests over no particles or towards no points.            *)
(***************************************************************************)
\* C28: a morph request (morphTo, next, prev, goTo) never raises; it either
\* starts a morph or leaves the particles, the frame store, the current
\* index and the morph state as they were
MorphRequestNeverRaises ==
    [][ request' # "none" =>
          /\ outcome' # "thrown"
          /\ \/ AcceptStep
             \/ /\ ParticleSet' = ParticleSet
                /\ Store' = Store
                /\ Index' = Index
                /\ InMorph' = InMorph
                /\ Progress' = Progress ]_vars
(***************************************************************************)
(* C29.  Removal flags while no morph is in progress.                      *)
(***************************************************************************)
Flagged == { i \in 1..Count : FlagOf(ParticleSet[i]) }

NoFlagWhenIdle == ~InMorph => Flagged = {}

\* C29: while no morph is in progress no particle is flagged for removal, and
\* only a step that accepts a morph request raises the number of flagged
\* particles
FlagsOnlyInMorph ==
    /\ []NoFlagWhenIdle
    /\ [][ Cardinality(Flagged') > Cardinality(Flagged) => AcceptStep ]_vars

\* a morph of the renderer from more particles than the frame has points has
\* completed: the flagged particles are gone
FlagsOnlyInMorphWitness ==
    /\ program = "renderer"
    /\ Completed
    /\ existingCount > Len(targetPoints)
    /\ Len(targetPoints) >= 1
    /\ Count = Len(targetPoints)
(***************************************************************************)
(* C30.  Exporting the store and importing the file (under ExchangeSpec).  *)
(***************************************************************************)
\* every frame of the store has as pointCount the length of its point list
PointCountExact == \A k \in 1..Len(frames) : frames[k].pointCount = Len(frames[k].points)

\* the frame f holds what the frame g held: the name, the pointCount and,
\* point by point, x, y, z, r, g, b as they are read (an absent colour as
\* 74, 222, 128, an absent z as 0)
SameFrame(f, g) ==
    /\ f.name = g.name
    /\ f.pointCount = g.pointCount
    /\ Len(f.points) = Len(g.points)
    /\ \A i \in 1..Len(g.points) : PointRead(f.points[i]) = PointRead(g.points[i])

\* the file exportAllFrames wrote is imported
Reimport == exported # NoFile /\ handleFrameImport(exported)

\* C30: the import of the file exportAllFrames wrote appends, in order, one
\* frame per frame exported, with the same name, pointCount and points; and
\* every frame of the store has as pointCount the length of its point list
ExportImportRoundTrip ==
    /\ []PointCountExact
    /\ [][ Reimport =>
             /\ outcome' = "ok"
             /\ Len(frames') = Len(frames) + Len(exportedFrom)
             /\ SubSeq(frames', 1, Len(frames)) = frames
             /\ \A k \in 1..Len(exportedFrom) :
                   SameFrame(frames'[Len(frames) + k], exportedFrom[k]) ]_vars

\* a store of three frames, one of them with points that have neither z nor
\* colour, was exported and cleared, and the file was imported
ExportImportWitness ==
    /\ Len(exportedFrom) = 3
    /\ \E i \in 1..Len(exportedFrom[3].points) : exportedFrom[3].points[i].r = Undefined
    /\ Len(frames) = 3
    /\ frames # exportedFrom
    /\ \A k \in 1..3 : SameFrame(frames[k], exportedFrom[k])
=============================================================================
